---- MODULE Spec2Model ----
(***************************************************************************)
(* A model of src/src/RandomDotKinematogram.tsx: the trial component       *)
(* (frame loop, refresh-rate calibration, trial clock, key response,       *)
(* React effects) and the per-dot functions (role assignment, aperture     *)
(* geometry, updateDot).                                                    *)
(*                                                                         *)
(* Time is in integer milliseconds; the component is mounted at time 0.    *)
(* The estimated frame interval is an exact rational <<num, den>>.         *)
(* React state is kept twice: st holds the latest values handed to the     *)
(* setters, cl the values of the last committed render, which are the      *)
(* values the closures of animate and handleKeyPress read.                 *)
(***************************************************************************)
EXTENDS Integers, Sequences, FiniteSets, TLC

VARIABLES
  cfg,                        \* the props of the trial (fixed for a trial)
  now,                        \* performance.now() at the last event
  mounted,                    \* the component is mounted
  st,                         \* React state: latest values set
  cl,                         \* React state: values of the committed render
  startTimeRef,
  lastUpdateTimeRef,
  lastFrameTimeRef,
  timeSinceReassignRef,
  currentSetRef,
  frameCountRef,
  stimulusHiddenRef,
  trialEndedRef,
  frameIntervalsRef,
  estimatedFrameIntervalRef,
  isCalibrated,
  animationPending,           \* a requestAnimationFrame callback is scheduled
  fixationTimerPending,       \* the fixation setTimeout is scheduled
  storeChanges,               \* number of times the store prop was replaced
  nextCalls,                  \* number of calls of next(data)
  lastData,                   \* the record handed to the last next(data)
  hist,                       \* history of the frame loop (observations only)
  dotCfg,                     \* the props that shape the aperture and its dots
  trackedDot,                 \* one dot of a dot set
  dotHist,                    \* what the last updateDot call did (observations only)
  geoCall,                    \* a call of an aperture method: arguments and result
  dotSetsRef,                 \* the dot sets: role and life count of every dot
  setHist,                    \* what the stimulus frames did to the dot sets (observations only)
  assignCall                  \* the last generateShuffledAssignments call

trialVars == <<cfg, now, mounted, st, cl, startTimeRef, lastUpdateTimeRef,
          lastFrameTimeRef, timeSinceReassignRef, currentSetRef, frameCountRef,
          stimulusHiddenRef, trialEndedRef, frameIntervalsRef,
          estimatedFrameIntervalRef, isCalibrated, animationPending,
          fixationTimerPending, storeChanges, nextCalls, lastData, hist>>

dotVars == <<dotCfg, trackedDot, dotHist, geoCall, dotSetsRef, setHist>>

vars == <<trialVars, dotVars, assignCall>>

---------------------------------------------------------------------------
(* Bounds of the model *)

MaxTrialFrames == 4        \* frames of a trial in Spec
MaxCalibFrames == 12       \* frames of a trial in CalibSpec
MaxStoreChanges == 1       \* replacements of the store prop in a trial

(* Program constants *)

CALIBRATION_FRAME_COUNT == 10
EMA_ALPHA_NUM == 1          \* EMA_ALPHA = 0.1 = EMA_ALPHA_NUM / EMA_ALPHA_DEN
EMA_ALPHA_DEN == 10
MaxValidFrameDelta == 500   \* frameDelta < 500
MinRefreshRate == 20
MaxRefreshRate == 300

undefined == -1             \* an unset number (ref, prop or state)
NoKey == "none"             \* response === null

---------------------------------------------------------------------------
(* Exact rationals <<n, d>>, d > 0, in lowest terms *)

RECURSIVE GCD(_, _)
GCD(a, b) == IF b = 0 THEN a ELSE GCD(b, a % b)

Abs(x) == IF x < 0 THEN -x ELSE x
Max(a, b) == IF a >= b THEN a ELSE b
Min(a, b) == IF a <= b THEN a ELSE b

Rat(n, d) == LET g == GCD(Abs(n), d) IN <<n \div g, d \div g>>

EstNull == <<0, 1>>         \* estimatedFrameIntervalRef.current === null

---------------------------------------------------------------------------
(* Keys *)

KeyNames == {"A", "b"}

toLowerCase(k) == IF k = "A" THEN "a" ELSE IF k = "B" THEN "b" ELSE k

LowerAll(keys) == {toLowerCase(k) : k \in keys}

---------------------------------------------------------------------------
(* Refresh-rate calibration (animate, lines 596-615) *)

RECURSIVE InsertSorted(_, _)
InsertSorted(s, v) ==
  IF s = <<>> THEN <<v>>
  ELSE IF v < Head(s) THEN <<v>> \o s
       ELSE <<Head(s)>> \o InsertSorted(Tail(s), v)

RECURSIVE SortAscending(_)
SortAscending(s) ==
  IF s = <<>> THEN <<>> ELSE InsertSorted(SortAscending(Tail(s)), Head(s))

(* sorted.length % 2 ? sorted[mid] : (sorted[mid - 1] + sorted[mid]) / 2,
   with 0-based mid = floor(length / 2) *)
MedianOddMid(samples) ==
  LET sorted == SortAscending(samples)
      mid == Len(sorted) \div 2
  IN Rat(sorted[mid + 1], 1)

Median(samples) ==
  LET sorted == SortAscending(samples)
      mid == Len(sorted) \div 2
  IN IF Len(sorted) % 2 = 1
     THEN Rat(sorted[mid + 1], 1)
     ELSE Rat(sorted[mid] + sorted[mid + 1], 2)

ValidFrameDeltaInclusive(frameDelta) ==
  frameDelta > 0 /\ frameDelta <= MaxValidFrameDelta

ValidFrameDelta(frameDelta) == frameDelta > 0 /\ frameDelta < MaxValidFrameDelta

(* EMA_ALPHA * frameDelta + (1 - EMA_ALPHA) * estimate *)
EmaStep(frameDelta, est) ==
  Rat(EMA_ALPHA_NUM * frameDelta * est[2] + (EMA_ALPHA_DEN - EMA_ALPHA_NUM) * est[1],
      EMA_ALPHA_DEN * est[2])

(* The calibrator after a frame with delta frameDelta *)
UpdateRefreshEstimate(frameDelta, buf, est, calibrated) ==
  IF ~ValidFrameDelta(frameDelta)
  THEN [buf |-> buf, est |-> est, calibrated |-> calibrated]
  ELSE IF ~calibrated
       THEN LET pushed == Append(buf, frameDelta)
            IN IF Len(pushed) >= CALIBRATION_FRAME_COUNT
               THEN [buf |-> pushed, est |-> Median(pushed), calibrated |-> TRUE]
               ELSE [buf |-> pushed, est |-> est, calibrated |-> FALSE]
       ELSE [buf |-> buf, est |-> EmaStep(frameDelta, est), calibrated |-> TRUE]

(* isCalibrated.current && estimatedFrameIntervalRef.current
     ? estimatedFrameIntervalRef.current * 0.5 : 0, as a rational *)
halfFrameCorrection(est, calibrated) ==
  IF calibrated /\ est[1] # 0 THEN Rat(est[1], 2 * est[2]) ELSE <<0, 1>>

(* elapsed + correction >= threshold *)
CorrectedReaches(elapsed, correction, threshold) ==
  elapsed * correction[2] + correction[1] >= threshold * correction[2]

StoreRateValidAnyNumber(refreshRate) == refreshRate # undefined

StoreRateValidExclusive(refreshRate) ==
  refreshRate # undefined /\ refreshRate > MinRefreshRate /\ refreshRate < MaxRefreshRate

(* The store effect (lines 511-517): the seed, or nothing.  A missing and a
   non-numeric _reactiveScreenRefreshRate are both undefined here *)
StoreRateValid(refreshRate) ==
  refreshRate # undefined /\ refreshRate >= MinRefreshRate /\ refreshRate <= MaxRefreshRate

---------------------------------------------------------------------------
(* Trial clock (animate, lines 617-643) *)

effectiveStimulusDuration(c) ==
  c.fixationTime + (IF c.stimulusDuration = undefined THEN c.duration ELSE c.stimulusDuration)

HideEdgeUnlatched(c, hiddenRef, elapsed, correction) ==
  /\ effectiveStimulusDuration(c) > 0
  /\ CorrectedReaches(elapsed, correction, effectiveStimulusDuration(c))

HideEdge(c, hiddenRef, elapsed, correction) ==
  /\ effectiveStimulusDuration(c) > 0
  /\ ~hiddenRef
  /\ CorrectedReaches(elapsed, correction, effectiveStimulusDuration(c))

EndEdgeAnyDuration(c, endedRef, elapsed, correction) ==
  /\ ~endedRef
  /\ CorrectedReaches(elapsed, correction, c.fixationTime + c.duration)

EndEdge(c, endedRef, elapsed, correction) ==
  /\ c.duration > 0
  /\ ~endedRef
  /\ CorrectedReaches(elapsed, correction, c.fixationTime + c.duration)

(* if (!canvas || !ctx || trialEnded) return; the canvas exists while mounted *)
AnimateNeverReturnsEarly(closure) == FALSE

AnimateReturnsEarly(closure) == closure.trialEnded

shouldUpdateEveryFrame(c, timeSinceLastUpdate) == TRUE

(* !updateRate || updateRate <= 0 || timeSinceLastUpdate >= 1000 / updateRate *)
shouldUpdate(c, timeSinceLastUpdate) ==
  \/ c.updateRate = undefined
  \/ c.updateRate <= 0
  \/ timeSinceLastUpdate * c.updateRate >= 1000

---------------------------------------------------------------------------
(* Role assignment (generateShuffledAssignments, lines 16-30).  A fraction
   is a numerator over FracDen; Math.floor(dotCount * fraction) is exact. *)

FracDen == 4               \* fractions are multiples of 1 / FracDen
MaxDotCount == 4           \* largest dotCount of a call

NoiseMovements == {"randomTeleport", "randomWalk", "randomDirection"}
FrameMovements == {"coherent", "opposite"} \cup NoiseMovements

FloorOfProduct(dotCount, fraction) == (dotCount * fraction) \div FracDen

Fill(n, v) == [i \in 1..n |-> v]

(* shuffle(array) of @adriansteffan/reactive: every permutation *)
shuffle(array) ==
  IF Len(array) = 0 THEN {<<>>}
  ELSE {[i \in 1..Len(array) |-> array[p[i]]] : p \in Permutations(1..Len(array))}

(* The possible outcomes of a call: Array(n) with n < 0 throws a RangeError *)
generateShuffledAssignmentsClamped(dotCount, coherence, opposite, noiseMovement) ==
  LET nCoherent == FloorOfProduct(dotCount, coherence)
      nOpposite == FloorOfProduct(dotCount, opposite)
      nNoise == Max(0, dotCount - nCoherent - nOpposite)
  IN {[threw |-> FALSE, value |-> a] :
        a \in shuffle(Fill(nCoherent, "coherent") \o Fill(nOpposite, "opposite")
                        \o Fill(nNoise, noiseMovement))}

generateShuffledAssignments(dotCount, coherence, opposite, noiseMovement) ==
  LET nCoherent == FloorOfProduct(dotCount, coherence)
      nOpposite == FloorOfProduct(dotCount, opposite)
      nNoise == dotCount - nCoherent - nOpposite
  IN IF nNoise < 0
     THEN {[threw |-> TRUE, value |-> <<>>]}
     ELSE {[threw |-> FALSE, value |-> a] :
             a \in shuffle(Fill(nCoherent, "coherent") \o Fill(nOpposite, "opposite")
                             \o Fill(nNoise, noiseMovement))}

---------------------------------------------------------------------------
(* Aperture geometry (createAperture, lines 93-297).  Coordinates are whole
   pixels.  A direction is an integer vector: the unit vector of the code
   times a positive length, which the displacement's distance absorbs and
   which getOppositePosition normalises away.  A coordinate that is not a
   whole pixel is rounded toward the aperture centre. *)

createAperture(shape, width, height, centerX, centerY) ==
  [family |-> IF shape \in {"circle", "ellipse"} THEN "elliptical" ELSE "rectangular",
   centerX |-> centerX,
   centerY |-> centerY,
   horizontalAxis |-> width \div 2,
   verticalAxis |-> IF shape \in {"circle", "square"} THEN width \div 2 ELSE height \div 2]

(* JavaScript %: the sign of the dividend *)
JsRem(a, n) == IF a >= 0 THEN a % n ELSE -((-a) % n)

(* n / d rounded toward zero, d > 0 *)
TruncDiv(n, d) == IF n >= 0 THEN n \div d ELSE -((-n) \div d)

RECURSIVE SqrtBetween(_, _, _)
SqrtBetween(n, lo, hi) ==        \* the largest r in lo..hi with r * r <= n
  IF lo >= hi THEN lo
  ELSE LET mid == (lo + hi + 1) \div 2
       IN IF mid * mid <= n THEN SqrtBetween(n, mid, hi) ELSE SqrtBetween(n, lo, mid - 1)

FloorSqrt(n) == SqrtBetween(n, 0, Min(n, 46340))
CeilSqrt(n) == LET r == FloorSqrt(n) IN IF r * r = n THEN r ELSE r + 1

wrapOnBoundsNoOffset(ap, x, y) ==
  LET w == ap.horizontalAxis * 2
      h == ap.verticalAxis * 2
      left == ap.centerX - ap.horizontalAxis
      top == ap.centerY - ap.verticalAxis
  IN <<JsRem(JsRem(x - left, w) + w, w), JsRem(JsRem(y - top, h) + h, h)>>

(* a single remainder, which keeps the sign of a negative offset *)
wrapOnBoundsSingleRemainder(ap, x, y) ==
  LET w == ap.horizontalAxis * 2
      h == ap.verticalAxis * 2
      left == ap.centerX - ap.horizontalAxis
      top == ap.centerY - ap.verticalAxis
  IN <<JsRem(x - left, w) + left, JsRem(y - top, h) + top>>

wrapOnBounds(ap, x, y) ==
  LET w == ap.horizontalAxis * 2
      h == ap.verticalAxis * 2
      left == ap.centerX - ap.horizontalAxis
      top == ap.centerY - ap.verticalAxis
  IN <<JsRem(JsRem(x - left, w) + w, w) + left, JsRem(JsRem(y - top, h) + h, h) + top>>

(* sampling the whole bounding box, corners and far edges included *)
getRandomPositionInBox(ap) ==
  ((ap.centerX - ap.horizontalAxis)..(ap.centerX + ap.horizontalAxis))
    \X ((ap.centerY - ap.verticalAxis)..(ap.centerY + ap.verticalAxis))

(* getRandomPosition: rho = sqrt(Math.random()) < 1 and
   randomBetween(min, max) in [min, max) *)
getRandomPosition(ap) ==
  LET xs == (ap.centerX - ap.horizontalAxis)..(ap.centerX + ap.horizontalAxis)
      ys == (ap.centerY - ap.verticalAxis)..(ap.centerY + ap.verticalAxis)
      a2 == ap.horizontalAxis * ap.horizontalAxis
      b2 == ap.verticalAxis * ap.verticalAxis
  IN IF ap.family = "elliptical"
     THEN {<<x, y>> \in xs \X ys :
             (x - ap.centerX) * (x - ap.centerX) * b2
               + (y - ap.centerY) * (y - ap.centerY) * a2 < a2 * b2}
     ELSE {<<x, y>> \in xs \X ys :
             x < ap.centerX + ap.horizontalAxis /\ y < ap.centerY + ap.verticalAxis}

(* dx * dx + dy * dy > 1 with dx = (x - centerX) / effH, dy = (y - centerY) / effV *)
isOutside(ap, x, y, margin) ==
  LET effH == ap.horizontalAxis + margin
      effV == ap.verticalAxis + margin
      xRel == x - ap.centerX
      yRel == y - ap.centerY
  IN IF ap.family = "elliptical"
     THEN xRel * xRel * effV * effV + yRel * yRel * effH * effH > effH * effH * effV * effV
     ELSE \/ x < ap.centerX - effH \/ x > ap.centerX + effH
          \/ y < ap.centerY - effV \/ y > ap.centerY + effV

(* |v| * scale / sqrt(q) rounded down, with the sign of v: a coordinate of
   the point clamped onto the ellipse *)
ClampedCoordinate(v, scale, q) ==
  LET target == v * v * scale * scale
      r == CHOOSE k \in 0..Abs(v) * scale :
             k * k * q <= target /\ (k + 1) * (k + 1) * q > target
  IN IF v >= 0 THEN r ELSE -r

getOppositePositionSimple(ap, dot) ==
  IF ap.family = "elliptical"
  THEN LET mirX == ap.centerX - dot.x     \* mirroredX - centerX
           mirY == ap.centerY - dot.y
           a == ap.horizontalAxis
           b == ap.verticalAxis
           q == mirX * mirX * b * b + mirY * mirY * a * a    \* dist^2 * a^2 * b^2
       IN IF q > a * a * b * b
          THEN <<ap.centerX + ClampedCoordinate(mirX, a * b, q),
                 ap.centerY + ClampedCoordinate(mirY, a * b, q)>>
          ELSE <<ap.centerX + mirX, ap.centerY + mirY>>
  ELSE LET left == ap.centerX - ap.horizontalAxis
           right == ap.centerX + ap.horizontalAxis
           top == ap.centerY - ap.verticalAxis
           bottom == ap.centerY + ap.verticalAxis
       IN <<IF dot.x < left THEN right ELSE IF dot.x > right THEN left ELSE dot.x,
            IF dot.y < top THEN bottom ELSE IF dot.y > bottom THEN top ELSE dot.y>>

(* (n - sigma * sqrt(s)) / d rounded toward zero; sigma in {-1, 0, 1}, d > 0 *)
SurdQuotient(n, sigma, s, d) ==
  IF sigma = 0 THEN TruncDiv(n, d)
  ELSE LET nonNegative == IF sigma = 1 THEN n >= 0 /\ n * n >= s
                          ELSE n >= 0 \/ n * n <= s
       IN IF nonNegative
          THEN (n - (IF sigma = 1 THEN CeilSqrt(s) ELSE -FloorSqrt(s))) \div d
          ELSE -((-(n - (IF sigma = 1 THEN FloorSqrt(s) ELSE -CeilSqrt(s)))) \div d)

SignNegated(v) == IF v > 0 THEN -1 ELSE IF v < 0 THEN 1 ELSE 0

Sign(v) == IF v > 0 THEN 1 ELSE IF v < 0 THEN -1 ELSE 0

LargerRootAnySign(B, discriminant) == TRUE

(* t > 0 for t = (B + sqrt(discriminant)) / A with A > 0 (line 159) *)
LargerRootPositive(B, discriminant) ==
  B > 0 \/ (B = 0 /\ discriminant > 0) \/ (B < 0 /\ discriminant > B * B)

(* Ray-ellipse intersection (lines 131-167) with every quantity scaled to
   integers: A, B, C times a^2 b^2 and powers of the direction's length *)
EllipseOppositePosition(ap, dot, dirX, dirY) ==
  LET xRel == dot.x - ap.centerX
      yRel == dot.y - ap.centerY
      a2 == ap.horizontalAxis * ap.horizontalAxis
      b2 == ap.verticalAxis * ap.verticalAxis
      A == dirX * dirX * b2 + dirY * dirY * a2
      B == xRel * dirX * b2 + yRel * dirY * a2
      C == xRel * xRel * b2 + yRel * yRel * a2 - a2 * b2
      discriminant == B * B - A * C
  IN IF dirX * dirX + dirY * dirY > 0 /\ discriminant >= 0
        /\ LargerRootPositive(B, discriminant)
     THEN <<ap.centerX + SurdQuotient(xRel * A - dirX * B, Sign(dirX),
                                      dirX * dirX * discriminant, A),
            ap.centerY + SurdQuotient(yRel * A - dirY * B, Sign(dirY),
                                      dirY * dirY * discriminant, A)>>
     ELSE getOppositePositionSimple(ap, dot)

(* Slab parameters: a rational <<n, d>> with d > 0, or -Infinity *)
NegInfinity == <<-1, 0>>
Quotient(n, d) == IF d < 0 THEN <<-n, -d>> ELSE <<n, d>>
TLeq(p, q) ==
  IF p[2] = 0 THEN TRUE ELSE IF q[2] = 0 THEN FALSE ELSE p[1] * q[2] <= q[1] * p[2]
TMin(p, q) == IF TLeq(p, q) THEN p ELSE q
TMax(p, q) == IF TLeq(p, q) THEN q ELSE p

(* v + dir * t rounded toward centre c *)
AlongRay(v, dir, t, c) == c + TruncDiv((v - c) * t[2] + dir * t[1], t[2])

(* the near intersection (tEnter) instead of the far one *)
RectangleNearPosition(ap, dot, dirX, dirY) ==
  LET dx == -dirX
      dy == -dirY
      left == ap.centerX - ap.horizontalAxis
      right == ap.centerX + ap.horizontalAxis
      top == ap.centerY - ap.verticalAxis
      bottom == ap.centerY + ap.verticalAxis
      tx1 == IF dx # 0 THEN Quotient(left - dot.x, dx) ELSE NegInfinity
      tx2 == IF dx # 0 THEN Quotient(right - dot.x, dx) ELSE NegInfinity
      ty1 == IF dy # 0 THEN Quotient(top - dot.y, dy) ELSE NegInfinity
      ty2 == IF dy # 0 THEN Quotient(bottom - dot.y, dy) ELSE NegInfinity
      tEnter == TMax(TMin(tx1, tx2), TMin(ty1, ty2))
      tExit == TMin(TMax(tx1, tx2), TMax(ty1, ty2))
  IN IF tEnter[2] # 0 /\ tEnter[1] > 0 /\ TLeq(tEnter, tExit)
     THEN <<AlongRay(dot.x, dx, tEnter, ap.centerX),
            AlongRay(dot.y, dy, tEnter, ap.centerY)>>
     ELSE <<dot.x, dot.y>>

(* Ray-rectangle intersection, slab method (lines 219-256) *)
RectangleOppositePosition(ap, dot, dirX, dirY) ==
  LET dx == -dirX
      dy == -dirY
      left == ap.centerX - ap.horizontalAxis
      right == ap.centerX + ap.horizontalAxis
      top == ap.centerY - ap.verticalAxis
      bottom == ap.centerY + ap.verticalAxis
      tx1 == IF dx # 0 THEN Quotient(left - dot.x, dx) ELSE NegInfinity
      tx2 == IF dx # 0 THEN Quotient(right - dot.x, dx) ELSE NegInfinity
      ty1 == IF dy # 0 THEN Quotient(top - dot.y, dy) ELSE NegInfinity
      ty2 == IF dy # 0 THEN Quotient(bottom - dot.y, dy) ELSE NegInfinity
      tEnter == TMax(TMin(tx1, tx2), TMin(ty1, ty2))
      tExit == TMin(TMax(tx1, tx2), TMax(ty1, ty2))
  IN IF dirX * dirX + dirY * dirY = 0
     THEN getOppositePositionSimple(ap, dot)
     ELSE IF tExit[2] # 0 /\ tExit[1] > 0 /\ TLeq(tEnter, tExit)
          THEN <<AlongRay(dot.x, dx, tExit, ap.centerX),
                 AlongRay(dot.y, dy, tExit, ap.centerY)>>
          ELSE getOppositePositionSimple(ap, dot)

getOppositePosition(ap, dot, dirX, dirY) ==
  IF ap.family = "elliptical"
  THEN EllipseOppositePosition(ap, dot, dirX, dirY)
  ELSE RectangleOppositePosition(ap, dot, dirX, dirY)

---------------------------------------------------------------------------
(* Dots (createDot, lines 299-317; updateDot, lines 319-404) *)

MaxDistance == 2           \* largest distance of a step
MaxDotSteps == 2           \* updateDot calls on a dot

(* cos(theta), -sin(theta) for theta in [-pi, pi): integer vectors along
   axes, diagonals and an oblique direction *)
Directions == {<<1, 0>>, <<0, 1>>, <<-1, 1>>, <<-1, -2>>}

createDot(assignedMovement, maxDotLife, ap) ==
  {[x |-> p[1], y |-> p[2],
    randomDirX |-> rd[1], randomDirY |-> rd[2],
    lifeCount |-> life,
    assignedMovement |-> assignedMovement] :
      p \in getRandomPosition(ap),
      rd \in (IF assignedMovement = "randomDirection" THEN Directions ELSE {<<0, 0>>}),
      life \in (IF maxDotLife > 0 THEN 0..(maxDotLife - 1) ELSE {0})}

PlacedAt(d, p) == [d EXCEPT !.x = p[1], !.y = p[2]]

ReinsertTypes == {"random", "opposite", "oppositeSimple", "wrap"}

(* Lines 387-401: bounds check and reinsertion of the moved dot; with an
   unknown reinsertType the call throws (line 399) and returns no dot *)
Reinsert(updated, ap, reinsertType, dotRadius, moveDirX, moveDirY) ==
  IF isOutside(ap, updated.x, updated.y, dotRadius)
  THEN IF reinsertType \notin ReinsertTypes
       THEN {[dot |-> updated, outOfBounds |-> TRUE, moved |-> TRUE, threw |-> TRUE]}
       ELSE
       LET positions ==
             CASE reinsertType = "random" -> getRandomPosition(ap)
               [] reinsertType = "oppositeSimple" -> {getOppositePositionSimple(ap, updated)}
               [] reinsertType = "opposite" ->
                    {getOppositePosition(ap, updated, moveDirX, moveDirY)}
               [] reinsertType = "wrap" -> {wrapOnBounds(ap, updated.x, updated.y)}
       IN {[dot |-> PlacedAt(updated, p), outOfBounds |-> TRUE, moved |-> TRUE,
            threw |-> FALSE] : p \in positions}
  ELSE {[dot |-> updated, outOfBounds |-> FALSE, moved |-> TRUE, threw |-> FALSE]}

LifeExpiredLate(maxDotLife, lifeCount) == maxDotLife > 0 /\ lifeCount > maxDotLife

(* maxDotLife > 0 && updated.lifeCount >= maxDotLife (line 334) *)
LifeExpired(maxDotLife, lifeCount) == maxDotLife > 0 /\ lifeCount >= maxDotLife

(* Every outcome of an updateDot call, with what the call did *)
updateDotOutcomes(dot, distance, deltaTimeMs, maxDotLife, ap, reinsertType, dotRadius, coherentDir, reassignMovementTo) ==
  LET aged == [dot EXCEPT !.lifeCount = dot.lifeCount + deltaTimeMs]
      method == IF reassignMovementTo # "undefined"
                THEN reassignMovementTo ELSE dot.assignedMovement
      randomDirs == IF reassignMovementTo # "undefined" /\ method = "randomDirection"
                    THEN Directions ELSE {<<dot.randomDirX, dot.randomDirY>>}
      Assigned(rd) == [aged EXCEPT !.assignedMovement = method,
                                   !.randomDirX = rd[1], !.randomDirY = rd[2]]
      MoveDirs(rd) ==
        CASE method = "coherent" -> {coherentDir}
          [] method = "opposite" -> {<<-coherentDir[1], -coherentDir[2]>>}
          [] method = "randomWalk" -> Directions
          [] method = "randomDirection" -> {rd}
          [] OTHER -> {}
      Moved(u, md) == [u EXCEPT !.x = u.x + md[1] * distance,
                                !.y = u.y + md[2] * distance]
  IN IF LifeExpired(maxDotLife, aged.lifeCount)
     THEN {[dot |-> [PlacedAt(aged, p) EXCEPT !.lifeCount = 0],
            outOfBounds |-> FALSE, moved |-> FALSE, threw |-> FALSE] :
             p \in getRandomPosition(ap)}
     ELSE IF method = "randomTeleport"
          THEN {[dot |-> PlacedAt(Assigned(<<dot.randomDirX, dot.randomDirY>>), p),
                 outOfBounds |-> FALSE, moved |-> FALSE, threw |-> FALSE] :
                  p \in getRandomPosition(ap)}
          ELSE UNION {UNION {Reinsert(Moved(Assigned(rd), md), ap, reinsertType,
                                      dotRadius, md[1], md[2]) : md \in MoveDirs(rd)} :
                        rd \in randomDirs}

updateDot(dot, distance, deltaTimeMs, maxDotLife, ap, reinsertType, dotRadius, coherentDir, reassignMovementTo) ==
  {o.dot : o \in {r \in updateDotOutcomes(dot, distance, deltaTimeMs, maxDotLife, ap,
                                           reinsertType, dotRadius, coherentDir,
                                           reassignMovementTo) : ~r.threw}}

---------------------------------------------------------------------------
(* Periodic role reassignment (animate, lines 658-676); the accumulator
   after the step and whether the step reassigns *)
ReassignmentOnEveryStep(c, acc, timeSinceLastUpdate, correction) ==
  [acc |-> acc, shouldReassign |-> TRUE]

Reassignment(c, acc, timeSinceLastUpdate, correction) ==
  IF c.reassignEveryMs = undefined
  THEN [acc |-> acc, shouldReassign |-> FALSE]
  ELSE IF c.reassignEveryMs = 0
       THEN [acc |-> acc, shouldReassign |-> TRUE]
       ELSE LET added == acc + timeSinceLastUpdate
                fires == CorrectedReaches(added, correction, c.reassignEveryMs)
            IN [acc |-> IF fires THEN added % c.reassignEveryMs ELSE added,
                shouldReassign |-> fires]

NextSetStays(current, dotSetCount) == current

(* (currentSetRef.current + 1) % dotSetCount, line 700 *)
NextSet(current, dotSetCount) == (current + 1) % dotSetCount

---------------------------------------------------------------------------
(* A committed render and its effects, in the order the component declares
   them: store effect (511), key listener (747), start animation (770),
   end trial (789).  s is the state being rendered, storeReplaced says
   whether the store prop is a new object. *)

(* animate is re-created when one of its useCallback dependencies changed;
   the props among them are fixed during a trial *)
animateRecreated(s) ==
  \/ s.trialEnded # cl.trialEnded
  \/ s.stimulusVisible # cl.stimulusVisible
  \/ s.fixationComplete # cl.fixationComplete

(* the dependencies of the end-trial effect: validKeys = [] is a new array
   on every render when the prop is not passed *)
endTrialDepsChanged(s) ==
  \/ s.trialEnded # cl.trialEnded
  \/ s.response # cl.response
  \/ s.responseTime # cl.responseTime
  \/ cfg.keys.isDefault

EndTrialEffectRuns(s) == endTrialDepsChanged(s) /\ s.trialEnded

(* Math.round(1000 / estimate), or null (undefined here) *)
measuredRefreshRate(est) ==
  IF est[1] = 0 THEN undefined
  ELSE (2 * 1000 * est[2] + est[1]) \div (2 * est[1])

(* The correctResponse prop: not passed, a string, or an array of strings *)
NoCorrectResponse == [kind |-> "none", keys |-> {}]

(* Array.isArray(correctResponse) ? correctResponse.map(toLowerCase)
     : correctResponse ? [correctResponse.toLowerCase()] : null *)
correctKeys(c) ==
  [isNull |-> c.correctResponse.kind = "none", keys |-> LowerAll(c.correctResponse.keys)]

(* response && correctKeys ? correctKeys.includes(response) : null *)
correct(c, response) ==
  IF response # NoKey /\ ~correctKeys(c).isNull
  THEN (IF response \in correctKeys(c).keys THEN "true" ELSE "false")
  ELSE "null"

TrialData(s, est) ==
  [rt |-> s.responseTime,
   response |-> s.response,
   correct |-> correct(cfg, s.response),
   framesDisplayed |-> frameCountRef,
   measuredRefreshRate |-> measuredRefreshRate(est)]

StoreEffectSeeds(storeReplaced) == storeReplaced /\ StoreRateValid(cfg.storeRate)

SeededEstimate(refreshRate) == Rat(1000, refreshRate)

Commit(s, storeReplaced) ==
  LET seeds == StoreEffectSeeds(storeReplaced)
      est == IF seeds THEN SeededEstimate(cfg.storeRate) ELSE estimatedFrameIntervalRef
  IN /\ cl' = s
     /\ estimatedFrameIntervalRef' = est
     /\ isCalibrated' = (isCalibrated \/ seeds)
     /\ startTimeRef' = IF animateRecreated(s) THEN now ELSE startTimeRef
     /\ animationPending' =
          IF EndTrialEffectRuns(s) THEN FALSE
          ELSE IF animateRecreated(s) THEN TRUE
          ELSE animationPending
     /\ nextCalls' = IF EndTrialEffectRuns(s) THEN nextCalls + 1 ELSE nextCalls
     /\ lastData' = IF EndTrialEffectRuns(s) THEN TrialData(s, est) ELSE lastData

---------------------------------------------------------------------------
(* Actions *)

(* The frame callback animate(timestamp), fired d ms after the previous
   frame (after mount, for the first one) *)
Animate(d) ==
  /\ mounted
  /\ animationPending
  /\ LET timestamp == (IF lastFrameTimeRef = undefined THEN now ELSE lastFrameTimeRef) + d
     IN
     /\ timestamp >= now
     /\ now' = timestamp
     /\ IF AnimateReturnsEarly(cl)
        THEN /\ animationPending' = FALSE
             /\ hist' = [hist EXCEPT !.callbacks = @ + 1]
             /\ UNCHANGED <<cfg, mounted, st, cl, startTimeRef, lastUpdateTimeRef,
                            lastFrameTimeRef, timeSinceReassignRef, currentSetRef,
                            frameCountRef, stimulusHiddenRef, trialEndedRef,
                            frameIntervalsRef, estimatedFrameIntervalRef, isCalibrated,
                            fixationTimerPending, storeChanges, nextCalls, lastData>>
        ELSE
          LET lastUpdate0 == IF lastUpdateTimeRef = undefined THEN timestamp
                             ELSE lastUpdateTimeRef
              frameDelta == IF lastFrameTimeRef = undefined THEN 0
                            ELSE timestamp - lastFrameTimeRef
              cal == UpdateRefreshEstimate(frameDelta, frameIntervalsRef,
                                           estimatedFrameIntervalRef, isCalibrated)
              correction == halfFrameCorrection(cal.est, cal.calibrated)
              elapsed == timestamp - startTimeRef
              hides == startTimeRef # undefined
                       /\ HideEdge(cfg, stimulusHiddenRef, elapsed, correction)
              ends == startTimeRef # undefined
                      /\ EndEdge(cfg, trialEndedRef, elapsed, correction)
              timeSinceLastUpdate == timestamp - lastUpdate0
              steps == cl.stimulusVisible /\ cl.fixationComplete
                       /\ shouldUpdate(cfg, timeSinceLastUpdate)
              re == Reassignment(cfg, timeSinceReassignRef, timeSinceLastUpdate, correction)
              reassigns == steps /\ re.shouldReassign
              periodic == cfg.reassignEveryMs # undefined /\ cfg.reassignEveryMs > 0
              short == 2 * timeSinceLastUpdate < cfg.reassignEveryMs
          IN
          /\ frameCountRef < cfg.frameCap
          /\ lastFrameTimeRef' = timestamp
          /\ frameCountRef' = frameCountRef + 1
          /\ frameIntervalsRef' = cal.buf
          /\ estimatedFrameIntervalRef' = cal.est
          /\ isCalibrated' = cal.calibrated
          /\ stimulusHiddenRef' = (stimulusHiddenRef \/ hides)
          /\ trialEndedRef' = (trialEndedRef \/ ends)
          /\ st' = [st EXCEPT !.stimulusVisible = IF hides THEN FALSE ELSE @,
                              !.trialEnded = IF ends THEN TRUE ELSE @]
          /\ timeSinceReassignRef' = IF steps THEN re.acc ELSE timeSinceReassignRef
          /\ currentSetRef' = IF steps THEN NextSet(currentSetRef, cfg.dotSetCount)
                              ELSE currentSetRef
          /\ lastUpdateTimeRef' = IF steps THEN timestamp ELSE lastUpdate0
          /\ animationPending' = TRUE
          /\ hist' = [hist EXCEPT
                !.callbacks = @ + 1,
                !.hiddenAtFrame = IF hides THEN frameCountRef + 1 ELSE @,
                !.hideEdges = @ + (IF hides THEN 1 ELSE 0),
                !.endEdges = @ + (IF ends THEN 1 ELSE 0),
                !.endDue = @ \/ (cfg.duration > 0
                                 /\ CorrectedReaches(timestamp, correction,
                                                     cfg.fixationTime + cfg.duration)),
                !.lastDelta = frameDelta,
                !.validDeltas = @ + (IF frameDelta > 0 /\ frameDelta < MaxValidFrameDelta
                                     THEN 1 ELSE 0),
                !.steps = @ + (IF steps THEN 1 ELSE 0),
                !.reassigns = @ + (IF reassigns THEN 1 ELSE 0),
                !.lastStepAt = IF steps THEN timestamp ELSE @,
                !.sinceReassign = IF ~steps \/ ~periodic THEN @
                                  ELSE IF reassigns THEN 0 ELSE @ + timeSinceLastUpdate,
                !.reassignGap = IF periodic /\ reassigns /\ hist.reassigns >= 1
                                THEN hist.sinceReassign + timeSinceLastUpdate ELSE @,
                !.reassignGapInterval = IF periodic /\ reassigns /\ hist.reassigns >= 1
                                        THEN cal.est ELSE @,
                !.prevStepReassigned = IF steps /\ periodic THEN re.shouldReassign ELSE @,
                !.prevStepShort = IF steps /\ periodic THEN short ELSE @,
                !.doubleFire = @ \/ (periodic /\ reassigns /\ short
                                     /\ hist.prevStepReassigned /\ hist.prevStepShort)]
          /\ UNCHANGED <<cfg, mounted, cl, startTimeRef, fixationTimerPending,
                         storeChanges, nextCalls, lastData>>

(* React commits the pending state updates and runs the effects *)
Render ==
  /\ mounted
  /\ st # cl
  /\ Commit(st, FALSE)
  /\ UNCHANGED <<cfg, now, mounted, st, lastUpdateTimeRef, lastFrameTimeRef,
                 timeSinceReassignRef, currentSetRef, frameCountRef,
                 stimulusHiddenRef, trialEndedRef, frameIntervalsRef,
                 fixationTimerPending, storeChanges, hist>>

(* validKeys.length > 0 ? validKeys.map(toLowerCase) : null;
   !allowedKeys || allowedKeys.includes(key) *)
KeyAllowedCaseSensitive(key) ==
  \/ cfg.keys.validKeys = {}
  \/ toLowerCase(key) \in cfg.keys.validKeys

KeyAllowed(key) ==
  \/ cfg.keys.validKeys = {}
  \/ toLowerCase(key) \in LowerAll(cfg.keys.validKeys)

(* handleKeyPress (lines 748-763); a keydown is a discrete event, React
   commits its updates before the handler's task ends *)
KeyDown(key) ==
  /\ mounted
  /\ IF cl.trialEnded \/ cl.response # NoKey \/ ~KeyAllowed(key)
     THEN /\ hist' = [hist EXCEPT !.lastKey = key, !.lastKeyTaken = FALSE]
          /\ UNCHANGED <<cfg, now, mounted, st, cl, startTimeRef, lastUpdateTimeRef,
                         lastFrameTimeRef, timeSinceReassignRef, currentSetRef,
                         frameCountRef, stimulusHiddenRef, trialEndedRef,
                         frameIntervalsRef, estimatedFrameIntervalRef, isCalibrated,
                         animationPending, fixationTimerPending, storeChanges,
                         nextCalls, lastData>>
     ELSE LET s == [st EXCEPT !.response = toLowerCase(key),
                              !.responseTime = now - startTimeRef,
                              !.trialEnded = IF cfg.responseEndsTrial THEN TRUE ELSE @]
          IN /\ st' = s
             /\ Commit(s, FALSE)
             /\ hist' = [hist EXCEPT !.keyEnded = @ \/ cfg.responseEndsTrial,
                                      !.lastKey = key, !.lastKeyTaken = TRUE]
             /\ UNCHANGED <<cfg, now, mounted, lastUpdateTimeRef, lastFrameTimeRef,
                            timeSinceReassignRef, currentSetRef, frameCountRef,
                            stimulusHiddenRef, trialEndedRef, frameIntervalsRef,
                            fixationTimerPending, storeChanges>>

(* setTimeout(() => setFixationComplete(true), fixationTime), lines 782-786:
   fires at its due time or, when that has passed, now *)
FixationTimer ==
  /\ mounted
  /\ fixationTimerPending
  /\ now' = Max(now, cfg.fixationTime)
  /\ fixationTimerPending' = FALSE
  /\ st' = [st EXCEPT !.fixationComplete = TRUE]
  /\ UNCHANGED <<cfg, mounted, cl, startTimeRef, lastUpdateTimeRef, lastFrameTimeRef,
                 timeSinceReassignRef, currentSetRef, frameCountRef,
                 stimulusHiddenRef, trialEndedRef, frameIntervalsRef,
                 estimatedFrameIntervalRef, isCalibrated, animationPending,
                 storeChanges, nextCalls, lastData, hist>>

(* The parent renders the component with a new store object of the same
   content: the render commits and the effect on [store] runs again *)
StoreChange ==
  /\ mounted
  /\ storeChanges < MaxStoreChanges
  /\ storeChanges' = storeChanges + 1
  /\ Commit(st, TRUE)
  /\ UNCHANGED <<cfg, now, mounted, st, lastUpdateTimeRef, lastFrameTimeRef,
                 timeSinceReassignRef, currentSetRef, frameCountRef,
                 stimulusHiddenRef, trialEndedRef, frameIntervalsRef,
                 fixationTimerPending, hist>>

(* Teardown: the cleanups remove the key listener, cancel the pending frame
   (776) and clear the fixation timer (785) *)
Unmount ==
  /\ mounted
  /\ mounted' = FALSE
  /\ animationPending' = FALSE
  /\ fixationTimerPending' = FALSE
  /\ UNCHANGED <<cfg, now, st, cl, startTimeRef, lastUpdateTimeRef, lastFrameTimeRef,
                 timeSinceReassignRef, currentSetRef, frameCountRef,
                 stimulusHiddenRef, trialEndedRef, frameIntervalsRef,
                 estimatedFrameIntervalRef, isCalibrated, storeChanges, nextCalls,
                 lastData, hist>>

---------------------------------------------------------------------------
(* The state after mount: the first render and its effects (store effect,
   start of the animation, fixation timer) *)

InitialState(c) ==
  [response |-> NoKey, responseTime |-> undefined, trialEnded |-> FALSE,
   fixationComplete |-> (c.fixationTime <= 0), stimulusVisible |-> TRUE]

NoData == [rt |-> undefined, response |-> NoKey, correct |-> "null",
           framesDisplayed |-> 0, measuredRefreshRate |-> undefined]

InitTrial(configs) ==
  /\ cfg \in configs
  /\ now = 0
  /\ mounted = TRUE
  /\ st = InitialState(cfg)
  /\ cl = InitialState(cfg)
  /\ startTimeRef = 0
  /\ lastUpdateTimeRef = undefined
  /\ lastFrameTimeRef = undefined
  /\ timeSinceReassignRef = 0
  /\ currentSetRef = 0
  /\ frameCountRef = 0
  /\ stimulusHiddenRef = FALSE
  /\ trialEndedRef = FALSE
  /\ frameIntervalsRef = <<>>
  /\ estimatedFrameIntervalRef =
       (IF StoreRateValid(cfg.storeRate) THEN SeededEstimate(cfg.storeRate) ELSE EstNull)
  /\ isCalibrated = StoreRateValid(cfg.storeRate)
  /\ animationPending = TRUE
  /\ fixationTimerPending = (cfg.fixationTime > 0)
  /\ storeChanges = 0
  /\ nextCalls = 0
  /\ lastData = NoData
  /\ hist = [callbacks |-> 0, hiddenAtFrame |-> 0, hideEdges |-> 0, endEdges |-> 0, endDue |-> FALSE, lastDelta |-> undefined,
             validDeltas |-> 0, steps |-> 0, reassigns |-> 0, keyEnded |-> FALSE,
             lastStepAt |-> undefined, sinceReassign |-> 0, reassignGap |-> undefined,
             reassignGapInterval |-> EstNull, prevStepReassigned |-> FALSE,
             prevStepShort |-> FALSE, doubleFire |-> FALSE,
             lastKey |-> NoKey, lastKeyTaken |-> FALSE]

(* Frame intervals the display delivers: two nearby refresh intervals and a
   stall of exactly the rejected length *)
FrameDeltas == {16, 17, MaxValidFrameDelta}
TrialFrameDeltas == {16, MaxValidFrameDelta}

TrialConfigs ==
  [fixationTime : {0, 20},
   duration : {-1, 40},
   stimulusDuration : {undefined, 20},
   responseEndsTrial : BOOLEAN,
   keys : {[validKeys |-> {}, isDefault |-> TRUE],
           [validKeys |-> {"A"}, isDefault |-> FALSE]},
   correctResponse : {NoCorrectResponse},
   updateRate : {undefined},
   reassignEveryMs : {undefined},
   dotSetCount : {1},
   storeRate : {undefined, 60},
   frameDeltas : {TrialFrameDeltas},
   frameCap : {MaxTrialFrames}]

(* Trials that start unseeded and run long enough to calibrate *)
CalibConfigs ==
  [fixationTime : {0},
   duration : {-1},
   stimulusDuration : {undefined},
   responseEndsTrial : {TRUE},
   keys : {[validKeys |-> {"A"}, isDefault |-> FALSE]},
   correctResponse : {NoCorrectResponse},
   updateRate : {undefined},
   reassignEveryMs : {undefined},
   dotSetCount : {1},
   storeRate : {undefined, 10},
   frameDeltas : {FrameDeltas},
   frameCap : {MaxCalibFrames}]

(* The trial specifications follow the clock of a trial and leave its dots
   out; the dot specifications follow one dot, or one role assignment, and
   leave the clock out. *)
NoDot == [x |-> 0, y |-> 0, randomDirX |-> 0, randomDirY |-> 0, lifeCount |-> 0,
          assignedMovement |-> "coherent"]

NoDotHist ==
  [steps |-> 0, outOfBounds |-> FALSE, moved |-> FALSE, deltaTimeMs |-> 0, threw |-> FALSE]

NoCall == [called |-> FALSE, dotCount |-> 0, coherence |-> 0, opposite |-> 0,
           noiseMovement |-> "randomDirection", threw |-> FALSE, value |-> <<>>]

NoDotConfig == [shape |-> "circle", width |-> 2, height |-> 2, centerX |-> 0,
                centerY |-> 0, reinsertType |-> "opposite", dotRadius |-> 0,
                maxDotLife |-> -1, coherentDir |-> <<0, -1>>,
                noiseMovement |-> "randomDirection"]

NoGeoCall == [called |-> FALSE, method |-> "wrap", x |-> 0, y |-> 0, dirX |-> 0,
              dirY |-> 0, result |-> <<0, 0>>]

NoSetHist == [steps |-> 0, drawn |-> undefined, threw |-> FALSE]

NoDotSets == dotSetsRef = <<>> /\ setHist = NoSetHist

NoDots ==
  /\ dotCfg = NoDotConfig /\ trackedDot = NoDot /\ dotHist = NoDotHist
  /\ geoCall = NoGeoCall /\ NoDotSets

NoTrialConfigs ==
  [fixationTime : {0}, duration : {-1}, stimulusDuration : {undefined},
   responseEndsTrial : {TRUE}, keys : {[validKeys |-> {}, isDefault |-> TRUE]},
   correctResponse : {NoCorrectResponse},
   updateRate : {undefined}, reassignEveryMs : {undefined}, dotSetCount : {1},
   storeRate : {undefined}, frameDeltas : {TrialFrameDeltas}, frameCap : {0}]

Init == InitTrial(TrialConfigs) /\ NoDots /\ assignCall = NoCall

CalibInit == InitTrial(CalibConfigs) /\ NoDots /\ assignCall = NoCall

Next ==
  \/ (\E d \in cfg.frameDeltas : Animate(d)) /\ UNCHANGED <<dotVars, assignCall>>
  \/ Render /\ UNCHANGED <<dotVars, assignCall>>
  \/ (\E key \in KeyNames : KeyDown(key)) /\ UNCHANGED <<dotVars, assignCall>>
  \/ FixationTimer /\ UNCHANGED <<dotVars, assignCall>>
  \/ StoreChange /\ UNCHANGED <<dotVars, assignCall>>
  \/ Unmount /\ UNCHANGED <<dotVars, assignCall>>

Spec == Init /\ [][Next]_vars

(* The frame loop of a trial without fixation period and without timed end,
   which a valid key ends *)
CalibNext ==
  \/ (\E d \in cfg.frameDeltas : Animate(d)) /\ UNCHANGED <<dotVars, assignCall>>
  \/ (\E key \in cfg.keys.validKeys : KeyDown(key)) /\ UNCHANGED <<dotVars, assignCall>>
  \/ StoreChange /\ UNCHANGED <<dotVars, assignCall>>
  \/ Unmount /\ UNCHANGED <<dotVars, assignCall>>

CalibSpec == CalibInit /\ [][CalibNext]_vars

---------------------------------------------------------------------------
(* Trials with a throttled update rate and periodic role reassignment, without
   key presses: the simulation steps of the frame loop *)

MaxStepFrames == 6         \* frames of a trial of StepSpec

StepFrameDeltas == {16, 24}

StepConfigs ==
  [fixationTime : {0, 20},
   duration : {-1},
   stimulusDuration : {undefined},
   responseEndsTrial : {TRUE},
   keys : {[validKeys |-> {"A"}, isDefault |-> FALSE]},
   correctResponse : {NoCorrectResponse},
   updateRate : {undefined, 25},
   reassignEveryMs : {undefined, 0, 50},
   dotSetCount : {1, 2},
   storeRate : {undefined, 50},
   frameDeltas : {StepFrameDeltas},
   frameCap : {MaxStepFrames}]

StepInit == InitTrial(StepConfigs) /\ NoDots /\ assignCall = NoCall

StepNext ==
  \/ (\E d \in cfg.frameDeltas : Animate(d)) /\ UNCHANGED <<dotVars, assignCall>>
  \/ Render /\ UNCHANGED <<dotVars, assignCall>>
  \/ FixationTimer /\ UNCHANGED <<dotVars, assignCall>>
  \/ Unmount /\ UNCHANGED <<dotVars, assignCall>>

StepSpec == StepInit /\ [][StepNext]_vars

---------------------------------------------------------------------------
(* Trials with a correct response configured, ended by a key or by time *)

MaxKeyFrames == 3          \* frames of a trial of KeySpec

KeyConfigs ==
  [fixationTime : {0},
   duration : {-1, 40},
   stimulusDuration : {undefined},
   responseEndsTrial : BOOLEAN,
   keys : {[validKeys |-> {}, isDefault |-> TRUE],
           [validKeys |-> {"A", "b"}, isDefault |-> FALSE]},
   correctResponse : {NoCorrectResponse,
                      [kind |-> "string", keys |-> {"A"}],
                      [kind |-> "array", keys |-> {"b", "B"}],
                      [kind |-> "array", keys |-> {}]},
   updateRate : {undefined},
   reassignEveryMs : {undefined},
   dotSetCount : {1},
   storeRate : {undefined},
   frameDeltas : {StepFrameDeltas},
   frameCap : {MaxKeyFrames}]

KeyInit == InitTrial(KeyConfigs) /\ NoDots /\ assignCall = NoCall

KeyNext ==
  \/ (\E d \in cfg.frameDeltas : Animate(d)) /\ UNCHANGED <<dotVars, assignCall>>
  \/ Render /\ UNCHANGED <<dotVars, assignCall>>
  \/ (\E key \in KeyNames : KeyDown(key)) /\ UNCHANGED <<dotVars, assignCall>>
  \/ Unmount /\ UNCHANGED <<dotVars, assignCall>>

KeySpec == KeyInit /\ [][KeyNext]_vars

---------------------------------------------------------------------------
(* The start of a trial under every kind of stored refresh rate *)

MaxSeedFrames == 2         \* frames of a trial of SeedSpec

SeedConfigs ==
  [fixationTime : {0},
   duration : {-1},
   stimulusDuration : {undefined},
   responseEndsTrial : {TRUE},
   keys : {[validKeys |-> {"A"}, isDefault |-> FALSE]},
   correctResponse : {NoCorrectResponse},
   updateRate : {undefined},
   reassignEveryMs : {undefined},
   dotSetCount : {1},
   storeRate : {undefined, 0, MinRefreshRate - 1, MinRefreshRate, 60, MaxRefreshRate,
                MaxRefreshRate + 1},
   frameDeltas : {StepFrameDeltas},
   frameCap : {MaxSeedFrames}]

SeedInit == InitTrial(SeedConfigs) /\ NoDots /\ assignCall = NoCall

SeedNext ==
  \/ (\E d \in cfg.frameDeltas : Animate(d)) /\ UNCHANGED <<dotVars, assignCall>>
  \/ (\E key \in cfg.keys.validKeys : KeyDown(key)) /\ UNCHANGED <<dotVars, assignCall>>
  \/ StoreChange /\ UNCHANGED <<dotVars, assignCall>>
  \/ Unmount /\ UNCHANGED <<dotVars, assignCall>>

SeedSpec == SeedInit /\ [][SeedNext]_vars

---------------------------------------------------------------------------
(* The refresh-rate estimate at the ends of its range: frames 1 ms and 499 ms
   apart, the store's rate missing, too low (2 Hz) or at an end of the
   accepted range *)

MaxSeededFrames == 4       \* frames of a trial whose estimate was seeded

EstimateFrameDeltas == {1, 499}

EstimateConfigs ==
  [fixationTime : {0},
   duration : {-1},
   stimulusDuration : {undefined},
   responseEndsTrial : {TRUE},
   keys : {[validKeys |-> {"A"}, isDefault |-> FALSE]},
   correctResponse : {NoCorrectResponse},
   updateRate : {undefined},
   reassignEveryMs : {undefined},
   dotSetCount : {1},
   storeRate : {undefined, 2},
   frameDeltas : {EstimateFrameDeltas},
   frameCap : {MaxCalibFrames}]
  \cup
  [fixationTime : {0},
   duration : {-1},
   stimulusDuration : {undefined},
   responseEndsTrial : {TRUE},
   keys : {[validKeys |-> {"A"}, isDefault |-> FALSE]},
   correctResponse : {NoCorrectResponse},
   updateRate : {undefined},
   reassignEveryMs : {undefined},
   dotSetCount : {1},
   storeRate : {MinRefreshRate, MaxRefreshRate},
   frameDeltas : {EstimateFrameDeltas},
   frameCap : {MaxSeededFrames}]

EstimateInit == InitTrial(EstimateConfigs) /\ NoDots /\ assignCall = NoCall

EstimateNext ==
  \/ (\E d \in cfg.frameDeltas : Animate(d)) /\ UNCHANGED <<dotVars, assignCall>>
  \/ (\E key \in cfg.keys.validKeys : KeyDown(key)) /\ UNCHANGED <<dotVars, assignCall>>
  \/ StoreChange /\ UNCHANGED <<dotVars, assignCall>>
  \/ Unmount /\ UNCHANGED <<dotVars, assignCall>>

EstimateSpec == EstimateInit /\ [][EstimateNext]_vars

---------------------------------------------------------------------------
(* One dot in one aperture: created by createDot, then stepped by updateDot
   with any distance, elapsed time and reassignment the frame loop passes *)

DotConfigs ==
  [shape : {"circle", "ellipse", "square", "rectangle"},
   width : {4},
   height : {6},
   centerX : {10},
   centerY : {10},
   reinsertType : {"random", "opposite", "oppositeSimple", "wrap"},
   dotRadius : {1},
   maxDotLife : {-1, 2},
   coherentDir : {<<0, -1>>},
   noiseMovement : NoiseMovements]

(* The roles a dot of the trial takes: lines 494-508 and 680-682 *)
TrialMovements == {"coherent", "opposite", dotCfg.noiseMovement}

Aperture ==
  createAperture(dotCfg.shape, dotCfg.width, dotCfg.height, dotCfg.centerX, dotCfg.centerY)

DotInit ==
  /\ dotCfg \in DotConfigs
  /\ \E assignedMovement \in TrialMovements :
       trackedDot \in createDot(assignedMovement, dotCfg.maxDotLife, Aperture)
  /\ dotHist = NoDotHist
  /\ geoCall = NoGeoCall
  /\ NoDotSets
  /\ assignCall = NoCall
  /\ InitTrial(NoTrialConfigs)

UpdateDot(distance, deltaTimeMs, reassignMovementTo) ==
  /\ dotHist.steps < MaxDotSteps
  /\ ~dotHist.threw
  /\ \E o \in updateDotOutcomes(trackedDot, distance, deltaTimeMs, dotCfg.maxDotLife,
                                Aperture,
                                dotCfg.reinsertType, dotCfg.dotRadius,
                                dotCfg.coherentDir, reassignMovementTo) :
       /\ trackedDot' = IF o.threw THEN trackedDot ELSE o.dot
       /\ dotHist' = [steps |-> dotHist.steps + 1, outOfBounds |-> o.outOfBounds,
                      moved |-> o.moved, deltaTimeMs |-> deltaTimeMs, threw |-> o.threw]
  /\ UNCHANGED <<dotCfg, geoCall, dotSetsRef, setHist, trialVars, assignCall>>

(* distance = speed * timeSinceLastUpdate / 1000 with speed > 0: a distance
   iff time has passed *)
FrameSteps ==
  {s \in (0..MaxDistance) \X {0, 1} : s[2] = 0 <=> s[1] = 0}

DotNext ==
  \E s \in FrameSteps, reassignMovementTo \in TrialMovements \cup {"undefined"} :
    UpdateDot(s[1], s[2], reassignMovementTo)

DotSpec == DotInit /\ [][DotNext]_vars

(* A dot under a reinsertMode that is none of the four known ones *)
ModeConfigs ==
  [shape : {"circle", "square"},
   width : {4},
   height : {6},
   centerX : {10},
   centerY : {10},
   reinsertType : {"bounce"},
   dotRadius : {1},
   maxDotLife : {-1, 2},
   coherentDir : {<<0, -1>>},
   noiseMovement : NoiseMovements]

ModeInit ==
  /\ dotCfg \in ModeConfigs
  /\ \E assignedMovement \in TrialMovements :
       trackedDot \in createDot(assignedMovement, dotCfg.maxDotLife, Aperture)
  /\ dotHist = NoDotHist
  /\ geoCall = NoGeoCall
  /\ NoDotSets
  /\ assignCall = NoCall
  /\ InitTrial(NoTrialConfigs)

ModeSpec == ModeInit /\ [][DotNext]_vars

---------------------------------------------------------------------------
(* The dot sets of a trial (dotSetsRef, lines 491-508) and the stimulus
   frames that step and draw them (animate, lines 655-707).  A dot of a set is
   kept as its role and life count; what updateDot does to the two is taken
   from updateDot itself. *)

MaxSetSteps == 3           \* simulation steps of a dot-set run

SetConfigs ==
  [shape : {"square"},
   width : {2},
   height : {2},
   centerX : {0},
   centerY : {0},
   reinsertType : {"random", "opposite", "oppositeSimple", "wrap"},
   dotRadius : {0},
   maxDotLife : {-1, 2},
   coherentDir : {<<0, -1>>},
   noiseMovement : {"randomTeleport", "randomDirection"},
   dotCount : {2, 3},
   fractions : {<<2, 2>>, <<1, 0>>},
   dotSetCount : {1, 2},
   reassignEveryMs : {undefined, 0, 2}]

RoleAndLife(dot) == [assignedMovement |-> dot.assignedMovement, lifeCount |-> dot.lifeCount]

(* a dot with a given role and life count: updateDot assigns lifeCount and
   assignedMovement in lines 330-352 only, where it reads neither the
   position nor the stored direction, so the dot is placed at one point,
   the top left corner, which a coherent dot leaves when it moves *)
DotsWith(rl) ==
  {[x |-> Aperture.centerX - Aperture.horizontalAxis,
    y |-> Aperture.centerY - Aperture.verticalAxis,
    randomDirX |-> IF rl.assignedMovement = "randomDirection" THEN 1 ELSE 0,
    randomDirY |-> 0,
    lifeCount |-> rl.lifeCount, assignedMovement |-> rl.assignedMovement]}

(* the i-th dot of a new set, i counted from 0 (lines 499-505) *)
InitialMovement(i) ==
  LET nCoherent == FloorOfProduct(dotCfg.dotCount, dotCfg.fractions[1])
      nOpposite == FloorOfProduct(dotCfg.dotCount, dotCfg.fractions[2])
  IN IF i < nCoherent THEN "coherent"
     ELSE IF i < nCoherent + nOpposite THEN "opposite"
     ELSE dotCfg.noiseMovement

(* every sequence whose i-th element is drawn from choices[i] *)
RECURSIVE SequencesOver(_)
SequencesOver(choices) ==
  IF Len(choices) = 0 THEN {<<>>}
  ELSE {Append(front, last) :
          front \in SequencesOver(SubSeq(choices, 1, Len(choices) - 1)),
          last \in choices[Len(choices)]}

NewDotSets ==
  LET dots == [i \in 1..dotCfg.dotCount |->
                 {RoleAndLife(d) :
                    d \in createDot(InitialMovement(i - 1), dotCfg.maxDotLife, Aperture)}]
  IN SequencesOver([k \in 1..dotCfg.dotSetCount |-> SequencesOver(dots)])

SetInit ==
  /\ dotCfg \in SetConfigs
  /\ dotSetsRef \in NewDotSets
  /\ setHist = NoSetHist
  /\ trackedDot = NoDot
  /\ dotHist = NoDotHist
  /\ geoCall = NoGeoCall
  /\ assignCall = NoCall
  /\ InitTrial(NoTrialConfigs)

(* updateDot(dot, ...) for one dot of a set: role and life count returned *)
updateDotInSet(rl, distance, deltaTimeMs, reassignMovementTo) ==
  UNION {{RoleAndLife(u) :
            u \in updateDot(d, distance, deltaTimeMs, dotCfg.maxDotLife, Aperture,
                            dotCfg.reinsertType, dotCfg.dotRadius, dotCfg.coherentDir,
                            reassignMovementTo)} :
           d \in DotsWith(rl)}

(* reassignments?.[i], i counted from 1 *)
ReassignmentAt(reassignments, i) ==
  IF i <= Len(reassignments) THEN reassignments[i] ELSE "undefined"

(* One stimulus frame (the else branch of line 652): a simulation step when
   shouldUpdate holds, then the drawing of the current set *)
StimulusFrame(stepDue, distance, timeSinceLastUpdate) ==
  /\ setHist.steps < MaxSetSteps
  /\ ~setHist.threw
  /\ IF ~stepDue
     THEN /\ setHist' = [setHist EXCEPT !.drawn = Len(dotSetsRef[currentSetRef + 1])]
          /\ UNCHANGED <<dotSetsRef, timeSinceReassignRef, currentSetRef>>
     ELSE
       LET correction == halfFrameCorrection(estimatedFrameIntervalRef, isCalibrated)
           re == Reassignment(dotCfg, timeSinceReassignRef, timeSinceLastUpdate, correction)
           calls == IF re.shouldReassign
                    THEN generateShuffledAssignments(dotCfg.dotCount, dotCfg.fractions[1],
                                                     dotCfg.fractions[2], dotCfg.noiseMovement)
                    ELSE {[threw |-> FALSE, value |-> <<>>]}
           currentSet == dotSetsRef[currentSetRef + 1]
       IN /\ timeSinceReassignRef' = re.acc
          /\ \E call \in calls :
               IF call.threw
               THEN /\ setHist' = [setHist EXCEPT !.threw = TRUE]
                    /\ UNCHANGED <<dotSetsRef, currentSetRef>>
               ELSE \E updatedDots \in
                       SequencesOver([i \in 1..Len(currentSet) |->
                          updateDotInSet(currentSet[i], distance, timeSinceLastUpdate,
                                         ReassignmentAt(call.value, i))]) :
                      /\ dotSetsRef' = [dotSetsRef EXCEPT ![currentSetRef + 1] = updatedDots]
                      /\ currentSetRef' = NextSet(currentSetRef, dotCfg.dotSetCount)
                      /\ setHist' = [setHist EXCEPT
                                       !.steps = @ + 1,
                                       !.drawn = Len(dotSetsRef'[currentSetRef' + 1])]
  /\ UNCHANGED <<cfg, now, mounted, st, cl, startTimeRef, lastUpdateTimeRef,
                 lastFrameTimeRef, frameCountRef, stimulusHiddenRef, trialEndedRef,
                 frameIntervalsRef, estimatedFrameIntervalRef, isCalibrated,
                 animationPending, fixationTimerPending, storeChanges, nextCalls,
                 lastData, hist>>
  /\ UNCHANGED <<dotCfg, trackedDot, dotHist, geoCall, assignCall>>

(* a frame that steps after 0 or 1 time units, or a throttled frame *)
SetNext ==
  \/ \E s \in {<<0, 0>>, <<1, 1>>} : StimulusFrame(TRUE, s[1], s[2])
  \/ StimulusFrame(FALSE, 0, 0)

SetSpec == SetInit /\ [][SetNext]_vars

---------------------------------------------------------------------------
(* The methods of an aperture: the arguments of a call, then the call *)

MaxFar == 8                \* how far from the centre an argument point lies

GeoConfigs ==
  [shape : {"circle", "ellipse", "square", "rectangle"},
   width : {2, 6},
   height : {4},
   centerX : {10, -3},
   centerY : {0},
   reinsertType : {"opposite"},
   dotRadius : {1},
   maxDotLife : {-1},
   coherentDir : {<<0, -1>>},
   noiseMovement : {"randomDirection"}]

GeoCalls(c) ==
  LET points == ((c.centerX - MaxFar)..(c.centerX + MaxFar))
                  \X ((c.centerY - MaxFar)..(c.centerY + MaxFar))
      Call(method, p, d) == [called |-> FALSE, method |-> method, x |-> p[1], y |-> p[2],
                             dirX |-> d[1], dirY |-> d[2], result |-> <<0, 0>>]
  IN {Call("wrap", p, <<0, 0>>) : p \in points}
       \cup {Call("getOppositePositionSimple", p, <<0, 0>>) : p \in points}
       \cup {Call("getOppositePosition", p, d) : p \in points, d \in Directions \cup {<<0, 0>>}}
       \cup {Call("getRandomPosition", <<0, 0>>, <<0, 0>>)}

GeoInit ==
  /\ dotCfg \in GeoConfigs
  /\ geoCall \in GeoCalls(dotCfg)
  /\ trackedDot = NoDot
  /\ dotHist = NoDotHist
  /\ NoDotSets
  /\ assignCall = NoCall
  /\ InitTrial(NoTrialConfigs)

Returns(result) ==
  /\ geoCall' = [geoCall EXCEPT !.called = TRUE, !.result = result]
  /\ UNCHANGED <<dotCfg, trackedDot, dotHist, dotSetsRef, setHist, trialVars, assignCall>>

ArgumentDot == [NoDot EXCEPT !.x = geoCall.x, !.y = geoCall.y]

CallWrap ==
  /\ ~geoCall.called /\ geoCall.method = "wrap"
  /\ Returns(wrapOnBounds(Aperture, geoCall.x, geoCall.y))

CallOppositePositionSimple ==
  /\ ~geoCall.called /\ geoCall.method = "getOppositePositionSimple"
  /\ Returns(getOppositePositionSimple(Aperture, ArgumentDot))

CallOppositePosition ==
  /\ ~geoCall.called /\ geoCall.method = "getOppositePosition"
  /\ Returns(getOppositePosition(Aperture, ArgumentDot, geoCall.dirX, geoCall.dirY))

CallRandomPosition ==
  /\ ~geoCall.called /\ geoCall.method = "getRandomPosition"
  /\ \E p \in getRandomPosition(Aperture) : Returns(p)

GeoNext ==
  \/ CallWrap
  \/ CallOppositePositionSimple
  \/ CallOppositePosition
  \/ CallRandomPosition

GeoSpec == GeoInit /\ [][GeoNext]_vars

---------------------------------------------------------------------------
(* Role assignments: the arguments of a call, then the call *)

AssignInit ==
  /\ assignCall \in [called : {FALSE}, dotCount : 0..MaxDotCount, coherence : 0..FracDen,
                     opposite : 0..FracDen, noiseMovement : NoiseMovements,
                     threw : {FALSE}, value : {<<>>}]
  /\ NoDots
  /\ InitTrial(NoTrialConfigs)

Generate ==
  /\ ~assignCall.called
  /\ \E r \in generateShuffledAssignments(assignCall.dotCount, assignCall.coherence,
                                          assignCall.opposite, assignCall.noiseMovement) :
       assignCall' = [assignCall EXCEPT !.called = TRUE, !.threw = r.threw,
                                        !.value = r.value]
  /\ UNCHANGED <<trialVars, dotVars>>

AssignNext == Generate

AssignSpec == AssignInit /\ [][AssignNext]_vars

---------------------------------------------------------------------------
(* Properties of the trial clock *)

(* C1 (as claimed): with duration > 0 and no key response, the trial-end
   edge has fired exactly when some frame's timestamp t, counted from mount
   (time 0), satisfied t + halfFrameCorrection >= fixationTime + duration. *)
C1_EndEdgeOnFirstDueFrame ==
  (cfg.duration > 0 /\ st.response = NoKey) => (trialEndedRef <=> hist.endDue)

(* C2: the stimulus-hide edge and the trial-end edge each fire at most once,
   and a latch that is set stays set: the number of firings of an edge is 1
   when its latch is true and 0 when it is false, in every state. *)
C2_EdgesFireAtMostOnce ==
  /\ hist.hideEdges = (IF stimulusHiddenRef THEN 1 ELSE 0)
  /\ hist.endEdges = (IF trialEndedRef THEN 1 ELSE 0)

(* the loop ran two more frames after the hide edge and then ended the trial *)
C2_Witness ==
  /\ stimulusHiddenRef
  /\ trialEndedRef
  /\ hist.hiddenAtFrame > 0
  /\ frameCountRef >= hist.hiddenAtFrame + 2

(* C5 (as claimed): next(data) is called only after the trial has ended and
   never a second time. *)
C5_NextCalledOnce ==
  /\ nextCalls <= 1
  /\ (nextCalls = 1 => cl.trialEnded)

(* C6: once the ended trial is committed (the end-trial effect has run) or
   the component is unmounted, no step increments the frame counter, moves
   the frame clock or performs a simulation step, and a frame callback that
   still fires schedules no further frame. *)
C6_NoFrameWorkAfterEnd ==
  [][(cl.trialEnded \/ ~mounted) =>
       /\ frameCountRef' = frameCountRef
       /\ lastFrameTimeRef' = lastFrameTimeRef
       /\ lastUpdateTimeRef' = lastUpdateTimeRef
       /\ hist'.steps = hist.steps
       /\ (hist'.callbacks # hist.callbacks => ~animationPending')]_vars

(* a callback requested by a render after the trial ended has fired *)
C6_Witness ==
  /\ cl.trialEnded
  /\ nextCalls = 1
  /\ hist.callbacks > frameCountRef
  /\ frameCountRef > 0

(* C7: with duration <= 0 no frame raises the trial-end edge, and the trial
   is ended only with a recorded response that is a valid key while
   responseEndsTrial is true. *)
C7_NoTimedEndWithoutDuration ==
  cfg.duration <= 0 =>
    /\ ~trialEndedRef
    /\ hist.endEdges = 0
    /\ (st.trialEnded =>
          /\ cfg.responseEndsTrial
          /\ st.response # NoKey
          /\ \/ cfg.keys.validKeys = {}
             \/ \E k \in cfg.keys.validKeys : toLowerCase(k) = st.response)

(* frames ran past fixationTime + duration and a key then ended the trial *)
C7_Witness ==
  /\ cfg.duration <= 0
  /\ frameCountRef >= 2
  /\ lastFrameTimeRef > cfg.fixationTime + 16
  /\ cl.trialEnded

---------------------------------------------------------------------------
(* Properties of the refresh calibrator *)

SampleSet(s) == {s[i] : i \in DOMAIN s}

(* the k-th smallest entry of s, by counting *)
KthSmallest(s, k) ==
  CHOOSE v \in SampleSet(s) :
    /\ Cardinality({i \in DOMAIN s : s[i] < v}) < k
    /\ Cardinality({i \in DOMAIN s : s[i] <= v}) >= k

(* C8: started unseeded, the calibrator is calibrated exactly when 10 valid
   frame deltas have been ingested; before that it has no estimate and the
   half-frame correction is 0; right after the 10th valid delta the estimate
   is the mean of the 5th and 6th smallest of the 10 samples. *)
C8_CalibratesOnTenthValidDelta ==
  ~StoreRateValid(cfg.storeRate) =>
    /\ isCalibrated <=> hist.validDeltas >= 10
    /\ ~isCalibrated =>
         /\ estimatedFrameIntervalRef = EstNull
         /\ halfFrameCorrection(estimatedFrameIntervalRef, isCalibrated) = <<0, 1>>
         /\ Len(frameIntervalsRef) = hist.validDeltas
    /\ hist.validDeltas = 10 =>
         /\ Len(frameIntervalsRef) = 10
         /\ 2 * estimatedFrameIntervalRef[1] =
              (KthSmallest(frameIntervalsRef, 5) + KthSmallest(frameIntervalsRef, 6))
                * estimatedFrameIntervalRef[2]

(* the deltas 16,17,...,16,17 give 16.5 ms and calibrated = true *)
C8_Witness ==
  /\ frameIntervalsRef = <<16, 17, 16, 17, 16, 17, 16, 17, 16, 17>>
  /\ estimatedFrameIntervalRef = <<33, 2>>
  /\ isCalibrated
  /\ hist.validDeltas = 10

(* C9 (as claimed): once calibrated, the flag stays true, the sample buffer
   is not appended to, and the estimate changes only on a frame with a valid
   delta d, to 0.1 * d + 0.9 * estimate. *)
C9_EstimateChangesOnlyBySmoothing ==
  [][isCalibrated =>
       /\ isCalibrated'
       /\ frameIntervalsRef' = frameIntervalsRef
       /\ (estimatedFrameIntervalRef' # estimatedFrameIntervalRef =>
             /\ frameCountRef' = frameCountRef + 1
             /\ hist'.lastDelta > 0 /\ hist'.lastDelta < 500
             /\ 10 * estimatedFrameIntervalRef[2] * estimatedFrameIntervalRef'[1] =
                  (hist'.lastDelta * estimatedFrameIntervalRef[2]
                     + 9 * estimatedFrameIntervalRef[1])
                    * estimatedFrameIntervalRef'[2])]_vars

(* C10: a frame whose delta is <= 0 or >= 500 ms leaves the sample buffer,
   the calibrated flag and the estimate unchanged, collecting or calibrated. *)
C10_ImplausibleDeltaIgnored ==
  [][(frameCountRef' # frameCountRef
      /\ (hist'.lastDelta <= 0 \/ hist'.lastDelta >= 500)) =>
       /\ frameIntervalsRef' = frameIntervalsRef
       /\ isCalibrated' = isCalibrated
       /\ estimatedFrameIntervalRef' = estimatedFrameIntervalRef]_vars

(* a stalled frame right after the 10-sample calibration *)
C10_Witness ==
  /\ hist.lastDelta >= 500
  /\ isCalibrated
  /\ Len(frameIntervalsRef) = 10
  /\ hist.validDeltas = 10

---------------------------------------------------------------------------
(* Properties of a dot's position *)

Elliptical == dotCfg.shape \in {"circle", "ellipse"}

InBoundingBox ==
  LET ap == Aperture
  IN /\ trackedDot.x >= ap.centerX - ap.horizontalAxis
     /\ trackedDot.x < ap.centerX + ap.horizontalAxis
     /\ trackedDot.y >= ap.centerY - ap.verticalAxis
     /\ trackedDot.y < ap.centerY + ap.verticalAxis

DotIsOutside == isOutside(Aperture, trackedDot.x, trackedDot.y, dotCfg.dotRadius)

(* C4 as stated: after every updateDot call, for every shape and every
   reinsertion mode, the returned dot is not outside the aperture expanded by
   the dot radius. *)
C4_NotOutsideAfterUpdate == dotHist.steps > 0 => ~DotIsOutside

(* C4, amended: after every updateDot call the returned dot is not outside
   the aperture expanded by the dot radius, except that a call which wraps a
   dot of a circle or ellipse returns it inside the bounding box
   [center - axis, center + axis) of the aperture, where it may be outside the
   expanded ellipse. *)
C4_NotOutsideUnlessWrappedInEllipse ==
  dotHist.steps > 0 =>
    IF Elliptical /\ dotCfg.reinsertType = "wrap" /\ dotHist.outOfBounds
    THEN InBoundingBox
    ELSE ~DotIsOutside

C4_Witness ==
  /\ dotHist.steps > 0
  /\ dotHist.outOfBounds
  /\ dotCfg.shape = "ellipse"
  /\ dotCfg.reinsertType = "opposite"
  /\ trackedDot.x < dotCfg.centerX
  /\ trackedDot.y > dotCfg.centerY

(* C16: whenever maxLifetime > 0 and lifeCount + deltaTimeMs >= maxLifetime,
   updateDot returns the dot with lifeCount = 0 at a sampled position inside
   the aperture, with no displacement and no reinsertion in that step;
   otherwise, and always when maxLifetime <= 0, the life counter grows by
   deltaTimeMs and is not reset. *)
C16_RespawnOnLifeExpiry ==
  [][dotHist'.steps # dotHist.steps =>
       IF dotCfg.maxDotLife > 0
          /\ trackedDot.lifeCount + dotHist'.deltaTimeMs >= dotCfg.maxDotLife
       THEN /\ trackedDot'.lifeCount = 0
            /\ ~isOutside(Aperture, trackedDot'.x, trackedDot'.y, 0)
            /\ ~dotHist'.moved
            /\ ~dotHist'.outOfBounds
            /\ trackedDot'.assignedMovement = trackedDot.assignedMovement
            /\ trackedDot'.randomDirX = trackedDot.randomDirX
            /\ trackedDot'.randomDirY = trackedDot.randomDirY
       ELSE trackedDot'.lifeCount = trackedDot.lifeCount + dotHist'.deltaTimeMs
    ]_vars

C16_Witness ==
  /\ dotHist.steps = MaxDotSteps
  /\ dotHist.deltaTimeMs > 0
  /\ dotCfg.maxDotLife > 0
  /\ trackedDot.lifeCount = 0
  /\ trackedDot.assignedMovement = "coherent"
  /\ ~dotHist.moved

---------------------------------------------------------------------------
(* Properties of the aperture methods *)

Returned(method) == geoCall.called /\ geoCall.method = method

(* C17: for every aperture and every point, however far outside on either
   side, wrap returns x in [centerX - horizontalAxis, centerX + horizontalAxis)
   and y in [centerY - verticalAxis, centerY + verticalAxis). *)
C17_WrapLandsInBoundingBox ==
  Returned("wrap") =>
    /\ geoCall.result[1] >= Aperture.centerX - Aperture.horizontalAxis
    /\ geoCall.result[1] < Aperture.centerX + Aperture.horizontalAxis
    /\ geoCall.result[2] >= Aperture.centerY - Aperture.verticalAxis
    /\ geoCall.result[2] < Aperture.centerY + Aperture.verticalAxis

C17_Witness ==
  /\ Returned("wrap")
  /\ geoCall.x = dotCfg.centerX - MaxFar
  /\ geoCall.y = dotCfg.centerY + MaxFar
  /\ dotCfg.shape = "ellipse"
  /\ dotCfg.centerX < 0
  /\ geoCall.result # <<geoCall.x, geoCall.y>>

InHalfOpenBox(x, y) ==
  /\ x >= Aperture.centerX - Aperture.horizontalAxis
  /\ x < Aperture.centerX + Aperture.horizontalAxis
  /\ y >= Aperture.centerY - Aperture.verticalAxis
  /\ y < Aperture.centerY + Aperture.verticalAxis

WrapIdempotent ==
  wrapOnBounds(Aperture, geoCall.result[1], geoCall.result[2]) = geoCall.result

(* C18 as stated: wrap returns every point for which isOutside(x, y, 0) is
   false unchanged, and wrapping a wrapped point changes nothing. *)
C18_WrapFixesEveryInsidePoint ==
  Returned("wrap") =>
    /\ ~isOutside(Aperture, geoCall.x, geoCall.y, 0) => geoCall.result = <<geoCall.x, geoCall.y>>
    /\ WrapIdempotent

(* C18: wrap returns every point of the half-open bounding box
   [centerX - horizontalAxis, centerX + horizontalAxis) x
   [centerY - verticalAxis, centerY + verticalAxis) unchanged; a point on the
   right or bottom edge of the box, for which isOutside(x, y, 0) can be false
   too, is moved to the opposite edge; wrapping a wrapped point changes
   nothing. *)
C18_WrapFixesHalfOpenBox ==
  Returned("wrap") =>
    /\ InHalfOpenBox(geoCall.x, geoCall.y) => geoCall.result = <<geoCall.x, geoCall.y>>
    /\ geoCall.x = Aperture.centerX + Aperture.horizontalAxis
          => geoCall.result[1] = Aperture.centerX - Aperture.horizontalAxis
    /\ geoCall.y = Aperture.centerY + Aperture.verticalAxis
          => geoCall.result[2] = Aperture.centerY - Aperture.verticalAxis
    /\ WrapIdempotent

C18_Witness ==
  /\ Returned("wrap")
  /\ InHalfOpenBox(geoCall.x, geoCall.y)
  /\ geoCall.x = Aperture.centerX - Aperture.horizontalAxis
  /\ geoCall.y = Aperture.centerY + 1
  /\ dotCfg.shape = "rectangle"
  /\ dotCfg.centerX > 0

(* C19: in an elliptical aperture, a dot that left through the rightmost
   point, at (centerX + a + e, centerY) with e > 0, moving in direction
   (1, 0), is put back by getOppositePosition at (centerX - a, centerY). *)
C19_RightExitReentersAtLeftmostPoint ==
  ( /\ Returned("getOppositePosition")
    /\ Aperture.family = "elliptical"
    /\ geoCall.x > Aperture.centerX + Aperture.horizontalAxis
    /\ geoCall.y = Aperture.centerY
    /\ geoCall.dirX = 1 /\ geoCall.dirY = 0 )
    => geoCall.result = <<Aperture.centerX - Aperture.horizontalAxis, Aperture.centerY>>

C19_Witness ==
  /\ Returned("getOppositePosition")
  /\ dotCfg.shape = "ellipse"
  /\ Aperture.horizontalAxis = 3
  /\ geoCall.x = Aperture.centerX + Aperture.horizontalAxis + 2
  /\ geoCall.y = Aperture.centerY
  /\ geoCall.dirX = 1 /\ geoCall.dirY = 0
  /\ geoCall.result[1] = Aperture.centerX - 3

(* C20: every point getRandomPosition returns, for either aperture family,
   any centre and any extents, has isOutside(x, y, 0) false. *)
C20_RandomPositionIsInside ==
  Returned("getRandomPosition")
    => ~isOutside(Aperture, geoCall.result[1], geoCall.result[2], 0)

C20_Witness ==
  /\ Returned("getRandomPosition")
  /\ Aperture.family = "elliptical"
  /\ dotCfg.centerX < 0
  /\ geoCall.result[1] > Aperture.centerX
  /\ geoCall.result[2] < Aperture.centerY

(* The backward ray P(t) = dot - t * dir, t >= 0, of a getOppositePosition
   call, against the aperture's boundary *)

ZeroDirection == geoCall.dirX = 0 /\ geoCall.dirY = 0

(* The ray meets the ellipse at some t > 0.  On the ray the ellipse equation
   is A t^2 - 2 B t + C = 0 with A > 0: the roots have product C / A and sum
   2 B / A, so the larger one is positive iff C < 0, or C = 0 and B > 0, or
   C > 0, B > 0 and the roots are real. *)
RayMeetsEllipse ==
  LET xRel == geoCall.x - Aperture.centerX
      yRel == geoCall.y - Aperture.centerY
      a2 == Aperture.horizontalAxis * Aperture.horizontalAxis
      b2 == Aperture.verticalAxis * Aperture.verticalAxis
      A == geoCall.dirX * geoCall.dirX * b2 + geoCall.dirY * geoCall.dirY * a2
      B == xRel * geoCall.dirX * b2 + yRel * geoCall.dirY * a2
      C == xRel * xRel * b2 + yRel * yRel * a2 - a2 * b2
  IN \/ C < 0
     \/ C = 0 /\ B > 0
     \/ C > 0 /\ B > 0 /\ B * B >= A * C

(* The parameters t > 0, as fractions, at which the ray lies on one of the
   four edge lines and within the rectangle *)
RayRectangleCrossings ==
  LET dx == -geoCall.dirX
      dy == -geoCall.dirY
      left == Aperture.centerX - Aperture.horizontalAxis
      right == Aperture.centerX + Aperture.horizontalAxis
      top == Aperture.centerY - Aperture.verticalAxis
      bottom == Aperture.centerY + Aperture.verticalAxis
      onVertical == IF dx = 0 THEN {}
                    ELSE {Quotient(left - geoCall.x, dx), Quotient(right - geoCall.x, dx)}
      onHorizontal == IF dy = 0 THEN {}
                      ELSE {Quotient(top - geoCall.y, dy), Quotient(bottom - geoCall.y, dy)}
      Within(t) ==
        /\ t[1] > 0
        /\ left * t[2] <= geoCall.x * t[2] + dx * t[1]
        /\ geoCall.x * t[2] + dx * t[1] <= right * t[2]
        /\ top * t[2] <= geoCall.y * t[2] + dy * t[1]
        /\ geoCall.y * t[2] + dy * t[1] <= bottom * t[2]
  IN {t \in onVertical \cup onHorizontal : Within(t)}

FarCrossing ==
  LET t == CHOOSE u \in RayRectangleCrossings :
             \A v \in RayRectangleCrossings : v[1] * u[2] <= u[1] * v[2]
  IN <<AlongRay(geoCall.x, -geoCall.dirX, t, Aperture.centerX),
       AlongRay(geoCall.y, -geoCall.dirY, t, Aperture.centerY)>>

(* C27: for both shape families getOppositePosition returns what
   getOppositePositionSimple returns when the direction has zero magnitude,
   and when the backward ray does not meet the boundary at a positive
   parameter (no real root, or no positive root). *)
C27_FallsBackToSimple ==
  ( /\ Returned("getOppositePosition")
    /\ \/ ZeroDirection
       \/ Aperture.family = "elliptical" /\ ~RayMeetsEllipse
       \/ Aperture.family # "elliptical" /\ RayRectangleCrossings = {} )
    => geoCall.result = getOppositePositionSimple(Aperture, ArgumentDot)

C27_Witness ==
  /\ Returned("getOppositePosition")
  /\ dotCfg.shape = "ellipse"
  /\ ~ZeroDirection
  /\ ~RayMeetsEllipse
  /\ geoCall.x = Aperture.centerX + Aperture.horizontalAxis + 1
  /\ geoCall.y = Aperture.centerY + 1
  /\ geoCall.dirX = -1 /\ geoCall.dirY = 1
  /\ geoCall.result # <<geoCall.x, geoCall.y>>

(* C28: for a rectangular aperture and a dot outside it, when the ray from
   the dot against its travel direction crosses the rectangle,
   getOppositePosition returns the far crossing point; a dot past the right
   edge moving in direction (1, 0) is put at (left, y). *)
C28_RectangleFarCrossing ==
  ( /\ Returned("getOppositePosition")
    /\ Aperture.family # "elliptical"
    /\ isOutside(Aperture, geoCall.x, geoCall.y, 0)
    /\ RayRectangleCrossings # {} )
    => /\ geoCall.result = FarCrossing
       /\ (geoCall.dirX = 1 /\ geoCall.dirY = 0)
            => geoCall.result = <<Aperture.centerX - Aperture.horizontalAxis, geoCall.y>>

C28_Witness ==
  /\ Returned("getOppositePosition")
  /\ dotCfg.shape = "rectangle"
  /\ Aperture.horizontalAxis = 3
  /\ geoCall.x = Aperture.centerX + Aperture.horizontalAxis + 2
  /\ geoCall.y = Aperture.centerY + Aperture.verticalAxis
  /\ geoCall.dirX = 1 /\ geoCall.dirY = 0
  /\ geoCall.result = <<Aperture.centerX - 3, geoCall.y>>

---------------------------------------------------------------------------
(* Properties of a role assignment *)

Count(array, v) == Cardinality({i \in 1..Len(array) : array[i] = v})

ExactCounts ==
  /\ ~assignCall.threw
  /\ Len(assignCall.value) = assignCall.dotCount
  /\ Count(assignCall.value, "coherent")
       = FloorOfProduct(assignCall.dotCount, assignCall.coherence)
  /\ Count(assignCall.value, "opposite")
       = FloorOfProduct(assignCall.dotCount, assignCall.opposite)
  /\ \A i \in 1..Len(assignCall.value) :
       assignCall.value[i] \in {"coherent", "opposite", assignCall.noiseMovement}

(* C3 as stated: for every dotCount >= 0 and every coherence and opposite in
   [0, 1], sums above 1 included, the call returns an array of length dotCount
   with exactly floor(dotCount * coherence) coherent and
   floor(dotCount * opposite) opposite entries, the rest being the noise role,
   whatever the shuffle does. *)
C3_ExactCountsAlways == assignCall.called => ExactCounts

(* C3, amended: the call returns such an array whenever
   floor(dotCount * coherence) + floor(dotCount * opposite) <= dotCount; when
   the two counts exceed dotCount it throws and returns no array. *)
C3_ExactCountsOrThrows ==
  assignCall.called =>
    IF FloorOfProduct(assignCall.dotCount, assignCall.coherence)
         + FloorOfProduct(assignCall.dotCount, assignCall.opposite) <= assignCall.dotCount
    THEN ExactCounts
    ELSE assignCall.threw

C3_Witness ==
  /\ assignCall.called
  /\ ~assignCall.threw
  /\ assignCall.dotCount >= 3
  /\ Count(assignCall.value, "coherent") = 1
  /\ Count(assignCall.value, "opposite") = 1
  /\ assignCall.value[1] = assignCall.noiseMovement
  /\ assignCall.value[2] = "opposite"

---------------------------------------------------------------------------
(* Properties of the simulation steps *)

(* C11: with reassignEveryMs = N > 0, two successive reassignment events are
   at least N - F ms of accumulated update time apart, F being the estimated
   frame interval (0 while there is none), and with update steps shorter than
   N / 2 reassignment never fires on two consecutive simulation steps. *)
C11_ReassignmentsAnIntervalApart ==
  (cfg.reassignEveryMs # undefined /\ cfg.reassignEveryMs > 0) =>
    /\ hist.reassignGap # undefined =>
         hist.reassignGap * hist.reassignGapInterval[2] + hist.reassignGapInterval[1]
           >= cfg.reassignEveryMs * hist.reassignGapInterval[2]
    /\ ~hist.doubleFire

(* C12: with updateRate = R > 0 two consecutive simulation steps are at least
   1000 / R ms apart in frame timestamps while every frame callback still
   renders a frame and schedules the next; with updateRate unset or <= 0 a
   frame performs exactly one simulation step if the stimulus is visible and
   fixation is complete, and none otherwise. *)
C12_StepsThrottledFramesRendered ==
  [][/\ (hist'.callbacks # hist.callbacks /\ ~cl.trialEnded) =>
          (frameCountRef' = frameCountRef + 1 /\ animationPending')
     /\ (cfg.updateRate # undefined /\ cfg.updateRate > 0
          /\ hist'.steps # hist.steps /\ hist.lastStepAt # undefined) =>
          (now' - hist.lastStepAt) * cfg.updateRate >= 1000
     /\ ((cfg.updateRate = undefined \/ cfg.updateRate <= 0)
          /\ frameCountRef' # frameCountRef) =>
          hist'.steps = hist.steps
                        + (IF cl.stimulusVisible /\ cl.fixationComplete THEN 1 ELSE 0)
    ]_vars

C12_Witness ==
  /\ cfg.updateRate = 25
  /\ hist.steps = 2
  /\ frameCountRef = MaxStepFrames
  /\ now - hist.lastStepAt > 0
  /\ cfg.fixationTime > 0
  /\ cl.fixationComplete

---------------------------------------------------------------------------
(* Properties of the response *)

KeyPressed == hist'.lastKey # hist.lastKey \/ hist'.lastKeyTaken # hist.lastKeyTaken

(* the trial has not ended, no response is recorded, and validKeys is empty or
   holds an entry whose lowercase is the lowercased key *)
ResponseDue(key) ==
  /\ ~cl.trialEnded
  /\ cl.response = NoKey
  /\ \/ cfg.keys.validKeys = {}
     \/ \E v \in cfg.keys.validKeys : toLowerCase(v) = toLowerCase(key)

(* C13: a key press is recorded as the response, with its reaction time, iff
   the trial has not ended, no response is recorded yet and the key passes
   validKeys (empty, or equal in lowercase to an entry); every other key press
   leaves response, reaction time and ended state unchanged, and a recorded
   response is never overwritten. *)
C13_FirstValidKeyIsTheResponse ==
  [][/\ (KeyPressed /\ ResponseDue(hist'.lastKey)) =>
          /\ st'.response = toLowerCase(hist'.lastKey)
          /\ st'.responseTime = now - startTimeRef
          /\ cl' = st'
     /\ (KeyPressed /\ ~ResponseDue(hist'.lastKey)) => (st' = st /\ cl' = cl)
     /\ ~KeyPressed => (st'.response = st.response /\ st'.responseTime = st.responseTime)
     /\ st.response # NoKey =>
          (st'.response = st.response /\ st'.responseTime = st.responseTime)
    ]_vars

C13_Witness ==
  /\ st.response = "a"
  /\ ~cl.trialEnded
  /\ hist.lastKey = "b"
  /\ ~hist.lastKeyTaken
  /\ cfg.keys.validKeys = {}
  /\ frameCountRef > 1

(* C14: in the emitted record, correct is none exactly when no correctResponse
   is configured; when one is configured, correct is a boolean that is true
   iff the recorded response (lowercased) is one of the correct keys. *)
C14_CorrectIsNoneIffNotConfigured ==
  nextCalls >= 1 =>
    /\ lastData.correct = "null" <=> cfg.correctResponse.kind = "none"
    /\ cfg.correctResponse.kind # "none" =>
         (lastData.correct = "true"
            <=> lastData.response \in LowerAll(cfg.correctResponse.keys))

---------------------------------------------------------------------------
(* Properties of the seeded estimate *)

(* C15: before the first frame is processed, a stored refresh rate r with
   20 <= r <= 300 has the trial calibrated with estimate 1000 / r, an empty
   sample buffer and the half-frame correction 500 / r; with any other stored
   value the trial is collecting, with no estimate and no correction. *)
C15_SeededFromStoreBeforeFirstFrame ==
  hist.callbacks = 0 =>
    /\ frameIntervalsRef = <<>>
    /\ IF cfg.storeRate # undefined /\ cfg.storeRate >= MinRefreshRate
          /\ cfg.storeRate <= MaxRefreshRate
       THEN /\ isCalibrated
            /\ estimatedFrameIntervalRef[1] * cfg.storeRate
                 = 1000 * estimatedFrameIntervalRef[2]
            /\ LET h == halfFrameCorrection(estimatedFrameIntervalRef, isCalibrated)
               IN h[1] * cfg.storeRate = 500 * h[2]
       ELSE /\ ~isCalibrated
            /\ estimatedFrameIntervalRef = EstNull
            /\ halfFrameCorrection(estimatedFrameIntervalRef, isCalibrated) = <<0, 1>>

C15_Witness ==
  /\ hist.callbacks = 0
  /\ cfg.storeRate = MinRefreshRate
  /\ isCalibrated
  /\ estimatedFrameIntervalRef = <<50, 1>>
  /\ storeChanges = 1
  /\ mounted

---------------------------------------------------------------------------
(* Properties of the dot sets *)

SetIndices == 1..Len(dotSetsRef)

Roles(dots) == [i \in 1..Len(dots) |-> dots[i].assignedMovement]

SetsWellFormed ==
  /\ Len(dotSetsRef) = dotCfg.dotSetCount
  /\ \A k \in SetIndices : Len(dotSetsRef[k]) = dotCfg.dotCount
  /\ currentSetRef \in 0..(dotCfg.dotSetCount - 1)
  /\ setHist.drawn \in {undefined, dotCfg.dotCount}
  /\ setHist.steps > 0 => setHist.drawn = dotCfg.dotCount

StepCyclesSets ==
  IF setHist'.steps # setHist.steps
  THEN /\ currentSetRef' = (currentSetRef + 1) % dotCfg.dotSetCount
       /\ \A k \in SetIndices : k # currentSetRef + 1 => dotSetsRef'[k] = dotSetsRef[k]
  ELSE currentSetRef' = currentSetRef /\ dotSetsRef' = dotSetsRef

(* C21: with dotSetCount = K >= 1 there are always K dot sets of exactly
   dotCount dots, the current-set index stays in 0..K-1, a simulation step
   updates the current set only and advances the index by one modulo K, a
   frame without a step leaves sets and index alone, and every stimulus frame
   draws one set of dotCount dots. *)
C21_SetsKeepSizeAndCycle == []SetsWellFormed /\ [][StepCyclesSets]_vars

C21_Witness ==
  /\ dotCfg.dotSetCount = 2 /\ dotCfg.dotCount = 3
  /\ setHist.steps = 3 /\ currentSetRef = 1
  /\ setHist.drawn = 3
  /\ dotCfg.maxDotLife = 2 /\ dotCfg.reassignEveryMs = 0

(* C22: with reassignEveryMs undefined no stimulus frame changes the role of
   any dot of any set, whatever else happens to the dot (respawn on life
   expiry, teleport, reinsertion). *)
C22_RolesFixedWithoutReassignment ==
  [][dotCfg.reassignEveryMs = undefined =>
       \A k \in SetIndices : Roles(dotSetsRef'[k]) = Roles(dotSetsRef[k])]_vars

C22_Witness ==
  /\ dotCfg.reassignEveryMs = undefined
  /\ dotCfg.maxDotLife = 2 /\ dotCfg.dotSetCount = 1 /\ dotCfg.dotCount = 3
  /\ dotCfg.noiseMovement = "randomTeleport" /\ dotCfg.fractions = <<2, 2>>
  /\ dotCfg.reinsertType = "opposite"
  /\ setHist.steps = 3
  /\ timeSinceReassignRef = 0
  /\ \A i \in 1..3 : dotSetsRef[1][i].lifeCount = 0
  /\ Roles(dotSetsRef[1]) = <<"coherent", "opposite", "randomTeleport">>

(* C24: when coherence + opposite <= 1, every dot set always holds exactly
   floor(dotCount * coherence) coherent dots and floor(dotCount * opposite)
   opposite dots, also after a step that reassigns the roles while a dot's
   life expires. *)
C24_ExactRoleCountsInEverySet ==
  dotCfg.fractions[1] + dotCfg.fractions[2] <= FracDen =>
    \A k \in SetIndices :
      /\ Count(Roles(dotSetsRef[k]), "coherent")
           = FloorOfProduct(dotCfg.dotCount, dotCfg.fractions[1])
      /\ Count(Roles(dotSetsRef[k]), "opposite")
           = FloorOfProduct(dotCfg.dotCount, dotCfg.fractions[2])

---------------------------------------------------------------------------
(* Properties of the trial's time origin *)

(* C23: the start timestamp, assigned when the trial starts (the start effect
   has run in the initial state), is never assigned again during the trial:
   not when the fixation period completes, not when the stimulus is hidden,
   not on any other render that re-creates the frame callback. *)
C23_StartTimeAssignedOnce == [][startTimeRef' = startTimeRef]_vars

(* C26: with duration = -1, stimulusDuration unset and any fixationTime >= 0
   the hide edge never fires and the stimulus stays visible. *)
C26_NoHideInUnboundedTrial ==
  (cfg.duration = -1 /\ cfg.stimulusDuration = undefined)
    => (hist.hideEdges = 0 /\ ~stimulusHiddenRef /\ st.stimulusVisible)

(* timestamp - lastUpdateTimeRef.current of the frame that takes the model
   from the current state to the next (lines 584-586 and 645) *)
TimeSinceLastUpdateUsed ==
  now' - (IF lastUpdateTimeRef = undefined THEN now' ELSE lastUpdateTimeRef)

(* C25: the elapsed time a simulation step uses for displacement, life
   counters and the reassignment accumulator is the time since the previous
   step; for the first step it is at most the time since the fixation period
   ended (the earliest the stimulus can be visible), so that no fixation time
   is counted as dot motion or dot life. *)
C25_StepTimeExcludesFixation ==
  [][hist'.steps # hist.steps =>
       IF hist.steps = 0
       THEN TimeSinceLastUpdateUsed <= now' - cfg.fixationTime
       ELSE TimeSinceLastUpdateUsed = now' - hist.lastStepAt]_vars

---------------------------------------------------------------------------
(* Properties of an unknown reinsertion mode *)

(* C29: with a reinsertMode outside random, opposite, oppositeSimple and
   wrap, the first updateDot call throws instead of returning a dot, and no
   call returns a dot left outside the aperture expanded by the dot radius. *)
C29_UnknownModeThrowsAtFirstCall ==
  (dotCfg.reinsertType \notin ReinsertTypes /\ dotHist.steps >= 1)
    => /\ dotHist.threw /\ dotHist.steps = 1
       /\ ~dotHist.threw
            => ~isOutside(Aperture, trackedDot.x, trackedDot.y, dotCfg.dotRadius)

---------------------------------------------------------------------------
(* Properties of the calibrated estimate *)

HalfFrame == halfFrameCorrection(estimatedFrameIntervalRef, isCalibrated)

(* C30: whenever the calibrator is calibrated, by seeding or by the median
   of ten samples, and after any smoothing update, the estimated frame
   interval is strictly between 0 and 500 ms and the half-frame correction
   strictly between 0 and 250 ms. *)
C30_CalibratedEstimateInRange ==
  isCalibrated =>
    /\ estimatedFrameIntervalRef[2] > 0
    /\ estimatedFrameIntervalRef[1] > 0
    /\ estimatedFrameIntervalRef[1] < MaxValidFrameDelta * estimatedFrameIntervalRef[2]
    /\ HalfFrame[1] > 0
    /\ 2 * HalfFrame[1] < MaxValidFrameDelta * HalfFrame[2]

C30_Witness ==
  /\ isCalibrated
  /\ cfg.storeRate = undefined
  /\ hist.validDeltas = CALIBRATION_FRAME_COUNT + 1
  /\ estimatedFrameIntervalRef = <<499, 1>>
  /\ storeChanges = 1

====
